---- MODULE Spec2Model ----
(***************************************************************************)
(* Model of the worktree CLI's atomic worktree operation tracker           *)
(* (utils/atomic.ts), its interrupt handler (utils/shutdown.ts) and the    *)
(* create command (commands/new.js) that composes them.                    *)
(*                                                                         *)
(* The repository under git's control is reduced to one target path and    *)
(* one branch name: a worktree entry, a directory, a local branch, a       *)
(* remote branch, the dirty flag of the main worktree and one stash.       *)
(* Every external command (git, the package manager, the editor, rm) is a  *)
(* step whose outcome the environment chooses.  A step of the model is     *)
(* the synchronous run of JavaScript between two awaited boundaries.       *)
(***************************************************************************)
EXTENDS Naturals, Sequences, FiniteSets, TLC

VARIABLES
    \* AtomicWorktreeOperation (utils/atomic.ts)
    rollbackActions,   \* the private rollbackActions array, head first
    committed,         \* the private committed flag
    worktreePath,      \* the private worktreePath field ("null" or "path")
    rbPc,              \* position inside rollback(): idle/top/await/remove/dir/branch/returned/threw
    rbIdx,             \* index of the for-of iterator over rollbackActions
    \* the repository and the file system
    wtEntry,           \* git lists a worktree at the target path
    dirExists,         \* a directory exists at the target path
    localBranch,       \* the branch exists locally
    remoteBranch,      \* the branch exists on the tracked remote
    mainDirty,         \* the main worktree has uncommitted changes
    stashPresent,      \* the stash taken by the command is in the stash list
    \* the process
    exitKind,          \* running / exit (process.exit) / end (event loop drained) / killed
    exitCode,          \* the exit status when exitKind is exit or end
    \* ShutdownManager (utils/shutdown.ts)
    manager,           \* the singleton: "null" until getShutdownManager() creates it
    handlers,          \* the private handlers array
    isShuttingDown,    \* the private isShuttingDown flag
    shPc,              \* position inside handleShutdown: idle / await
    shIdx,             \* the loop variable i (1-based)
    \* newWorktreeHandler (commands/new.js)
    pc,                \* position of the command's main flow
    opt,               \* the command's inputs and the repository's kind
    stashHash,         \* let stashHash
    unregisterShutdown,\* let unregisterShutdown: "null" or the handler it removes
    directoryExists,   \* let directoryExists
    branchExists,      \* const branchExists
    isBare,            \* const isBare ("unset" until assigned, then "yes" / "no")
    isClean,           \* const isClean (likewise)
    apPc,              \* position of each running applyAndDropStash call
    \* driver of the public API (tracker and shutdown manager on their own)
    ops,               \* number of API calls made so far
    lastCall,          \* the last API call and how it ended
    held,              \* the unregister closures the client obtained, in order
    \* observation (history) variables
    nextId,            \* number of rollback actions registered so far
    regOrder,          \* ids of the registered actions, in registration order
    rbSnapshot,        \* regOrder when rollback() was last called
    invoked,           \* ids of the actions the current/last rollback() invoked
    finishedCnt,       \* how many of them have completed
    threwIds,          \* ids of invoked actions that threw
    invokedTotal,      \* rollback actions invoked over the life of the tracker
    commitCalled,      \* commit() has been called
    wtRb,              \* the last worktree rollback action and its sub-steps
    signals,           \* termination signals received
    shSnapshot,        \* handlers when the first signal arrived
    shInvoked,         \* cleanup callbacks invoked by handleShutdown, in order
    shThrew,           \* cleanup callbacks that threw
    applyStarted,      \* calls of applyAndDropStash started
    applyDone,         \* calls of applyAndDropStash that applied and dropped the stash
    stepFailed,        \* a step of the atomic create failed (observed by the catch)
    addedByCmd,        \* git worktree add succeeded in this run
    sigInCreate,       \* a signal arrived between worktree add and commit
    issued,            \* external commands a command handler has issued (kinds)
    dirtyAction,       \* what handleDirtyState() returned ("none" before it is asked)
    \* the remove and purge commands
    worktrees,         \* what git and the file system hold for each worktree
    targetWorktree,    \* remove: let targetWorktree ("null" or a worktree)
    selectedWorktrees, \* purge: const selectedWorktrees
    wtIdx,             \* purge: position of the for-of loop over selectedWorktrees
    removedSuccessfully, \* purge: let removedSuccessfully
    processed,         \* purge: worktrees whose loop iteration has started, in order
    \* calls of the naming utilities (resolveWorktreeName, resolveWorktreePath,
    \* validateBranchName)
    fnCall,            \* the function called and the arguments of its successive calls
    fnResult,          \* what the calls made so far returned, in order
    \* runSetupScriptsSecure (utils/setup.js)
    shouldRun,         \* const shouldRun ("unset" until assigned, then "yes" / "no")
    cmdIdx             \* position of the for-of loop over setupResult.commands

atomicVars == <<rollbackActions, committed, worktreePath>>
rbVars == <<rbPc, rbIdx>>
repoVars == <<wtEntry, dirExists, localBranch, remoteBranch>>
stashVars == <<mainDirty, stashPresent>>
procVars == <<exitKind, exitCode>>
shVars == <<manager, handlers, isShuttingDown, shPc, shIdx>>
cmdVars == <<pc, opt, stashHash, unregisterShutdown, directoryExists, branchExists,
             isBare, isClean>>
driverVars == <<ops, lastCall, held>>
rbHist == <<nextId, regOrder, rbSnapshot, invoked, finishedCnt, threwIds,
            invokedTotal, commitCalled, wtRb>>
shHist == <<signals, shSnapshot, shInvoked, shThrew>>
cmdHist == <<applyStarted, applyDone, stepFailed, addedByCmd, sigInCreate, issued, dirtyAction>>
rmVars == <<worktrees, targetWorktree, selectedWorktrees, wtIdx, removedSuccessfully,
            processed>>
fnVars == <<fnCall, fnResult, shouldRun, cmdIdx>>
vars == <<atomicVars, rbVars, repoVars, stashVars, procVars, shVars, cmdVars, apPc,
          driverVars, rbHist, shHist, cmdHist, rmVars, fnVars>>

\* Bounds of the model.
MaxActions == 3
MaxOps == 6
MaxHandlers == 3
MaxSignals == 2

Reverse(s) == [i \in 1..Len(s) |-> s[Len(s) + 1 - i]]
IsPrefix(s, t) == Len(s) <= Len(t) /\ \A i \in 1..Len(s) : s[i] = t[i]
Min(a, b) == IF a <= b THEN a ELSE b

NoWtRb == [kind |-> "none", createBranch |-> FALSE, attempted |-> {}, failed |-> {},
           done |-> FALSE, threw |-> FALSE]

Alive == exitKind = "running"

\* The handler issues an external command of kind k (it may fail).
Issue(k) == issued' = issued \cup {k}

\* JavaScript runs to completion: between two awaited boundaries a flow is not
\* interrupted. The main flow is in the middle of such a run when it has a
\* synchronous continuation left (commit(), entering the catch, the loop head
\* of rollback(), the return from an await that has settled); the cleanup
\* callback of the create command is when its awaited work has settled.
MainMidRun ==
    \/ pc \in {"validate", "commit", "catch"}
    \/ pc = "editor" /\ ~opt.editor
    \/ pc = "rollback" /\ rbPc \in {"top", "returned"}
    \/ pc = "restore" /\ apPc["main"] = "done"
    \/ pc = "end" /\ shPc = "idle"
HandlerMidRun ==
    /\ shPc = "await"
    /\ shInvoked[Len(shInvoked)] = "stash"
    /\ apPc["handler"] \in {"idle", "done"}
MainMayRun == Alive /\ ~HandlerMidRun
HandlerMayRun == Alive /\ ~MainMidRun

(***************************************************************************)
(* AtomicWorktreeOperation                                                 *)
(***************************************************************************)

\* Array.prototype.unshift: the new rollback action goes to the head.
PushAtTail(list, a) == Append(list, a)
Unshift(list, a) == <<a>> \o list

\* this.rollbackActions.unshift(<closure>), with the registration observed.
Register(kind, createBranch) ==
    /\ rollbackActions' = Unshift(rollbackActions,
           [id |-> nextId + 1, kind |-> kind, createBranch |-> createBranch])
    /\ nextId' = nextId + 1
    /\ regOrder' = Append(regOrder, nextId + 1)

\* git worktree add [-b <branch>] <path> [<branch>] can succeed only on a free
\* path; -b needs a new branch name, the plain form an existing branch (git
\* creates the local branch from the remote one when only that exists).
AddCanSucceed(createBranch) ==
    /\ ~wtEntry /\ ~dirExists
    /\ IF createBranch THEN ~localBranch ELSE (localBranch \/ remoteBranch)

\* The alternative of registering the rollback before the action is awaited.
RegistersBeforeAwait(ok) == TRUE
\* await action() returned instead of throwing.
ActionResolved(ok) == ok

\* execute(action, rollback): await action(); this.rollbackActions.unshift(rollback).
\* ok is whether action() resolved; if it threw nothing is registered.
ExecuteBody(ok) ==
    /\ IF ActionResolved(ok) THEN Register("custom", FALSE)
             ELSE UNCHANGED <<rollbackActions, nextId, regOrder>>
    /\ UNCHANGED <<committed, worktreePath, repoVars>>

\* createWorktree(path, branch, createBranch); ok is whether git worktree add
\* succeeded.
CreateWorktreeBody(createBranch, ok) ==
    /\ IF ok
       THEN /\ wtEntry' = TRUE /\ dirExists' = TRUE /\ localBranch' = TRUE
            /\ worktreePath' = "path"
            /\ Register("createWorktree", createBranch)
       ELSE UNCHANGED <<wtEntry, dirExists, localBranch, worktreePath,
                        rollbackActions, nextId, regOrder>>
    /\ UNCHANGED <<committed, remoteBranch>>

\* createWorktreeFromRemote(path, branch, remoteBranch)
CreateWorktreeFromRemoteBody(ok) ==
    /\ IF ok
       THEN /\ wtEntry' = TRUE /\ dirExists' = TRUE /\ localBranch' = TRUE
            /\ worktreePath' = "path"
            /\ Register("createWorktreeFromRemote", TRUE)
       ELSE UNCHANGED <<wtEntry, dirExists, localBranch, worktreePath,
                        rollbackActions, nextId, regOrder>>
    /\ UNCHANGED <<committed, remoteBranch>>

\* commit(): this.committed = true; this.rollbackActions = [].
CommitBody ==
    /\ committed' = TRUE
    /\ rollbackActions' = <<>>
    /\ regOrder' = <<>>
    /\ commitCalled' = TRUE
    /\ UNCHANGED <<worktreePath, nextId>>

\* The two early returns of rollback().
IgnoresCommitted(c, actions) == Len(actions) = 0
RollbackSkips(c, actions) == c \/ Len(actions) = 0

\* rollback() is entered: an early return, or the for-of loop starts.
RollbackEnter ==
    /\ rbSnapshot' = regOrder
    /\ invoked' = <<>>
    /\ finishedCnt' = 0
    /\ threwIds' = {}
    /\ wtRb' = NoWtRb
    /\ IF RollbackSkips(committed, rollbackActions)
       THEN rbPc' = "returned" /\ rbIdx' = 0
       ELSE rbPc' = "top" /\ rbIdx' = 1
    /\ UNCHANGED <<atomicVars, nextId, regOrder, invokedTotal, commitCalled>>

\* What a step of rollback() leaves alone.
outsideRollback == <<stashVars, procVars, shVars, cmdVars, apPc, driverVars, shHist,
                     cmdHist>>

\* Loop head: the iterator yields the next action and the loop calls it.
RollbackInvoke ==
    /\ MainMayRun
    /\ rbPc = "top"
    /\ rbIdx <= Len(rollbackActions)
    /\ LET a == rollbackActions[rbIdx] IN
         /\ invoked' = Append(invoked, a.id)
         /\ invokedTotal' = invokedTotal + 1
         /\ IF a.kind = "custom"
            THEN rbPc' = "await" /\ wtRb' = wtRb
            ELSE /\ rbPc' = "remove"
                 /\ wtRb' = [NoWtRb EXCEPT !.kind = a.kind,
                                           !.createBranch = a.createBranch]
    /\ UNCHANGED <<atomicVars, rbIdx, repoVars, outsideRollback>>
    /\ UNCHANGED <<nextId, regOrder, rbSnapshot, finishedCnt, threwIds, commitCalled>>
    /\ UNCHANGED <<rmVars, fnVars>>

\* try { await action() } catch { log }: where the loop goes when the awaited
\* action settles.
NoCatch(ok) == IF ok THEN "top" ELSE "threw"
AfterAction(ok) == "top"

\* A rollback action registered through execute() settles.
RollbackCustomEnd ==
    /\ MainMayRun
    /\ rbPc = "await"
    /\ \E ok \in BOOLEAN :
         /\ rbPc' = AfterAction(ok)
         /\ threwIds' = IF ok THEN threwIds
                        ELSE threwIds \cup {rollbackActions[rbIdx].id}
    /\ rbIdx' = rbIdx + 1
    /\ finishedCnt' = finishedCnt + 1
    /\ UNCHANGED <<atomicVars, repoVars, outsideRollback>>
    /\ UNCHANGED <<nextId, regOrder, rbSnapshot, invoked, invokedTotal, commitCalled,
                   wtRb>>
    /\ UNCHANGED <<rmVars, fnVars>>

\* The sub-steps each worktree rollback closure contains.
SubSteps(kind) ==
    IF kind = "createWorktreeFromRemote" THEN {"remove", "dir", "branch"}
    ELSE IF kind = "createWorktree" THEN {"remove", "dir"}
    ELSE {}

\* Where a worktree rollback closure goes after a sub-step. Each sub-step sits
\* in its own try/catch, so its failure changes nothing.
ThrowOnFailure(step, kind, ok) ==
    IF ~ok THEN "throw"
    ELSE IF step = "remove" THEN "dir"
    ELSE IF step = "dir" /\ kind = "createWorktreeFromRemote" THEN "branch"
    ELSE "end"
AfterSubStep(step, kind, ok) ==
    IF step = "remove" THEN "dir"
    ELSE IF step = "dir" /\ kind = "createWorktreeFromRemote" THEN "branch"
    ELSE "end"

\* Book-keeping common to the sub-steps: the closure goes on, returns or throws.
SubStepDone(step, ok) ==
    LET nxt == AfterSubStep(step, wtRb.kind, ok) IN
    /\ wtRb' = [wtRb EXCEPT !.attempted = @ \cup {step},
                            !.failed = IF ok THEN @ ELSE @ \cup {step},
                            !.done = (nxt \in {"end", "throw"}),
                            !.threw = (nxt = "throw")]
    /\ IF nxt \in {"end", "throw"}
       THEN /\ rbPc' = AfterAction(nxt = "end")
            /\ rbIdx' = rbIdx + 1
            /\ finishedCnt' = finishedCnt + 1
            /\ threwIds' = IF nxt = "end" THEN threwIds
                           ELSE threwIds \cup {rollbackActions[rbIdx].id}
       ELSE /\ rbPc' = nxt
            /\ UNCHANGED <<rbIdx, finishedCnt, threwIds>>

\* git worktree remove --force <path>
RollbackRemove ==
    /\ MainMayRun
    /\ rbPc = "remove"
    /\ \E ok \in BOOLEAN :
         LET done == ok /\ wtEntry IN
         /\ wtEntry' = IF done THEN FALSE ELSE wtEntry
         /\ dirExists' = IF done THEN FALSE ELSE dirExists
         /\ SubStepDone("remove", done)
    /\ UNCHANGED <<atomicVars, localBranch, remoteBranch, outsideRollback>>
    /\ UNCHANGED <<nextId, regOrder, rbSnapshot, invoked, invokedTotal, commitCalled>>
    /\ UNCHANGED <<rmVars, fnVars>>

\* stat(path), then rm(path, {recursive, force}); a missing directory is fine.
RollbackRmDir ==
    /\ MainMayRun
    /\ rbPc = "dir"
    /\ \E ok \in BOOLEAN :
         /\ dirExists' = IF ok THEN FALSE ELSE dirExists
         /\ SubStepDone("dir", ok \/ ~dirExists)
    /\ UNCHANGED <<atomicVars, wtEntry, localBranch, remoteBranch, outsideRollback>>
    /\ UNCHANGED <<nextId, regOrder, rbSnapshot, invoked, invokedTotal, commitCalled>>
    /\ UNCHANGED <<rmVars, fnVars>>

\* git branch -D <branch>: refused while a worktree has the branch checked out.
RollbackDeleteBranch ==
    /\ MainMayRun
    /\ rbPc = "branch"
    /\ \E ok \in BOOLEAN :
         LET done == ok /\ localBranch /\ ~wtEntry IN
         /\ localBranch' = IF done THEN FALSE ELSE localBranch
         /\ SubStepDone("branch", done)
    /\ UNCHANGED <<atomicVars, wtEntry, dirExists, remoteBranch, outsideRollback>>
    /\ UNCHANGED <<nextId, regOrder, rbSnapshot, invoked, invokedTotal, commitCalled>>
    /\ UNCHANGED <<rmVars, fnVars>>

\* The loop is over: log, this.rollbackActions = [], return.
RollbackFinish ==
    /\ MainMayRun
    /\ rbPc = "top"
    /\ rbIdx > Len(rollbackActions)
    /\ rollbackActions' = <<>>
    /\ regOrder' = <<>>
    /\ rbPc' = "returned"
    /\ UNCHANGED <<committed, worktreePath, rbIdx, repoVars, outsideRollback>>
    /\ UNCHANGED <<nextId, rbSnapshot, invoked, finishedCnt, threwIds, invokedTotal,
                   commitCalled, wtRb>>
    /\ UNCHANGED <<rmVars, fnVars>>

RollbackStep ==
    \/ RollbackInvoke
    \/ RollbackCustomEnd
    \/ RollbackRemove
    \/ RollbackRmDir
    \/ RollbackDeleteBranch
    \/ RollbackFinish

(***************************************************************************)
(* The tracker driven through its public API, one awaited call at a time.  *)
(***************************************************************************)
outsideAtomic == <<stashVars, procVars, shVars, cmdVars, apPc, held, shHist, cmdHist>>

CanCall == rbPc \in {"idle", "returned"} /\ ops < MaxOps

Execute ==
    /\ CanCall /\ nextId < MaxActions
    /\ \E ok \in BOOLEAN :
         /\ ExecuteBody(ok)
         /\ lastCall' = IF ok THEN "execute:ok" ELSE "execute:threw"
    /\ ops' = ops + 1
    /\ UNCHANGED <<rbVars, outsideAtomic>>
    /\ UNCHANGED <<rbSnapshot, invoked, finishedCnt, threwIds, invokedTotal,
                   commitCalled, wtRb>>
    /\ UNCHANGED <<rmVars, fnVars>>

CreateWorktree(createBranch) ==
    /\ CanCall /\ nextId < MaxActions
    /\ \E ok \in BOOLEAN :
         /\ CreateWorktreeBody(createBranch, ok /\ AddCanSucceed(createBranch))
         /\ lastCall' = IF ok /\ AddCanSucceed(createBranch)
                        THEN "createWorktree:ok" ELSE "createWorktree:threw"
    /\ ops' = ops + 1
    /\ UNCHANGED <<rbVars, outsideAtomic>>
    /\ UNCHANGED <<rbSnapshot, invoked, finishedCnt, threwIds, invokedTotal,
                   commitCalled, wtRb>>
    /\ UNCHANGED <<rmVars, fnVars>>

CreateWorktreeFromRemote ==
    /\ CanCall /\ nextId < MaxActions
    /\ \E ok \in BOOLEAN :
         LET good == ok /\ AddCanSucceed(TRUE) /\ remoteBranch IN
         /\ CreateWorktreeFromRemoteBody(good)
         /\ lastCall' = IF good THEN "createWorktreeFromRemote:ok"
                        ELSE "createWorktreeFromRemote:threw"
    /\ ops' = ops + 1
    /\ UNCHANGED <<rbVars, outsideAtomic>>
    /\ UNCHANGED <<rbSnapshot, invoked, finishedCnt, threwIds, invokedTotal,
                   commitCalled, wtRb>>
    /\ UNCHANGED <<rmVars, fnVars>>

Commit ==
    /\ CanCall
    /\ CommitBody
    /\ ops' = ops + 1
    /\ lastCall' = "commit"
    /\ UNCHANGED <<rbVars, repoVars, outsideAtomic>>
    /\ UNCHANGED <<rbSnapshot, invoked, finishedCnt, threwIds, invokedTotal, wtRb>>
    /\ UNCHANGED <<rmVars, fnVars>>

RollbackCall ==
    /\ CanCall
    /\ RollbackEnter
    /\ ops' = ops + 1
    /\ lastCall' = "rollback"
    /\ UNCHANGED <<repoVars, outsideAtomic>>
    /\ UNCHANGED <<rmVars, fnVars>>

\* Values of the variables a specification does not use.
IdleProcess ==
    /\ exitKind = "running" /\ exitCode = 0
IdleShutdown ==
    /\ manager = "null" /\ handlers = <<>> /\ isShuttingDown = FALSE
    /\ shPc = "idle" /\ shIdx = 0
    /\ signals = 0 /\ shSnapshot = <<>> /\ shInvoked = <<>> /\ shThrew = {}
IdleCommand ==
    /\ pc = "none"
    /\ opt = [branchOk |-> TRUE, install |-> FALSE, editor |-> FALSE, bare |-> FALSE]
    /\ stashHash = "null" /\ unregisterShutdown = "null"
    /\ directoryExists = FALSE /\ branchExists = FALSE
    /\ isBare = "unset" /\ isClean = "unset"
    /\ apPc = [w \in {"main", "handler"} |-> "idle"]
    /\ mainDirty = FALSE /\ stashPresent = FALSE
    /\ applyStarted = 0 /\ applyDone = 0 /\ stepFailed = FALSE /\ addedByCmd = FALSE
    /\ sigInCreate = FALSE /\ issued = {} /\ dirtyAction = "none"
IdleTracker ==
    /\ rollbackActions = <<>> /\ committed = FALSE /\ worktreePath = "null"
    /\ rbPc = "idle" /\ rbIdx = 0
    /\ nextId = 0 /\ regOrder = <<>> /\ rbSnapshot = <<>> /\ invoked = <<>>
    /\ finishedCnt = 0 /\ threwIds = {} /\ invokedTotal = 0
    /\ commitCalled = FALSE /\ wtRb = NoWtRb
IdleDriver ==
    /\ ops = 0 /\ lastCall = "none" /\ held = <<>>
\* No call of a naming utility is modelled.
NoCall == [fn |-> "none", args |-> <<>>]
IdleSetup == shouldRun = "unset" /\ cmdIdx = 0
IdleUtils == fnCall = NoCall /\ fnResult = <<>> /\ IdleSetup

IdleRemoval ==
    /\ worktrees = <<>> /\ targetWorktree = "null" /\ selectedWorktrees = <<>>
    /\ wtIdx = 0 /\ removedSuccessfully = FALSE /\ processed = <<>>

InitAtomic ==
    /\ IdleTracker /\ IdleDriver /\ IdleProcess /\ IdleShutdown /\ IdleCommand
    /\ IdleRemoval /\ IdleUtils
    /\ wtEntry = FALSE
    /\ dirExists = FALSE
    /\ localBranch \in BOOLEAN
    /\ remoteBranch \in BOOLEAN

NextAtomic ==
    \/ Execute
    \/ \E cb \in BOOLEAN : CreateWorktree(cb)
    \/ CreateWorktreeFromRemote
    \/ Commit
    \/ RollbackCall
    \/ RollbackStep

SpecAtomic == InitAtomic /\ [][NextAtomic]_vars

(***************************************************************************)
(* The process and the ShutdownManager                                     *)
(***************************************************************************)

\* process.exit(code): the process ends at once; no finally block, no pending
\* continuation and no cleanup callback runs after it.
Exit(code) ==
    /\ exitKind' = "exit"
    /\ exitCode' = code

ExitFailure == 1
ExitCancelled == 0
ExitInterrupted == 130

\* Array.prototype.indexOf: the first index holding h, 0 when there is none.
IndexOf(list, h) ==
    IF \E i \in 1..Len(list) : list[i] = h
    THEN CHOOSE i \in 1..Len(list) :
             list[i] = h /\ \A j \in 1..(i - 1) : list[j] # h
    ELSE 0

\* Array.prototype.splice(index, 1)
Splice(list, i) == [j \in 1..(Len(list) - 1) |-> IF j < i THEN list[j] ELSE list[j + 1]]

\* The function register(handler) returns: removes the first occurrence of
\* the handler, if there is one.
Unregister(list, h) ==
    IF IndexOf(list, h) # 0 THEN Splice(list, IndexOf(list, h)) ELSE list

\* onShutdown(handler) = getShutdownManager().register(handler): the first
\* call constructs the singleton, which installs the signal listeners.
RegisterHandler(h) ==
    /\ manager' = "created"
    /\ handlers' = Append(handlers, h)

\* applyAndDropStash(stashHash, ".") is called by `who` (the command's main
\* flow or the cleanup callback).
StartApply(who) ==
    /\ apPc' = [apPc EXCEPT ![who] = "apply"]
    /\ applyStarted' = applyStarted + 1

\* git stash apply <hash>: on success the changes are back in the main
\* worktree; on failure the stash is kept and false is returned.
ApplyStashApply(who) ==
    /\ IF who = "main" THEN MainMayRun ELSE HandlerMayRun
    /\ apPc[who] = "apply"
    /\ \E ok \in BOOLEAN :
         IF ok /\ stashPresent
         THEN /\ mainDirty' = TRUE
              /\ apPc' = [apPc EXCEPT ![who] = "drop"]
         ELSE /\ mainDirty' = mainDirty
              /\ apPc' = [apPc EXCEPT ![who] = "done"]
    /\ UNCHANGED <<atomicVars, rbVars, repoVars, stashPresent, procVars, shVars,
                   cmdVars, driverVars, rbHist, shHist, cmdHist>>
    /\ UNCHANGED <<rmVars, fnVars>>

\* git stash drop, only after a successful apply.
ApplyStashDrop(who) ==
    /\ IF who = "main" THEN MainMayRun ELSE HandlerMayRun
    /\ apPc[who] = "drop"
    /\ stashPresent' = FALSE
    /\ applyDone' = IF stashPresent THEN applyDone + 1 ELSE applyDone
    /\ apPc' = [apPc EXCEPT ![who] = "done"]
    /\ UNCHANGED <<atomicVars, rbVars, repoVars, mainDirty, procVars, shVars,
                   cmdVars, driverVars, rbHist, shHist>>
    /\ UNCHANGED <<applyStarted, stepFailed, addedByCmd, sigInCreate, issued, dirtyAction>>
    /\ UNCHANGED <<rmVars, fnVars>>

\* The loop of handleShutdown at index i (1-based; the code's i is one less):
\* a slot beyond the end of the array holds undefined, the call throws a
\* TypeError which the catch logs, and the loop goes on downwards. At a valid
\* slot the callback is called and awaited; below the first slot the process
\* exits. The callback of the create command restores the stash, if any.
LoopFrom(i) ==
    LET j == Min(i, Len(handlers)) IN
    IF j = 0
    THEN /\ Exit(ExitInterrupted)
         /\ shPc' = "idle"
         /\ shIdx' = 0
         /\ UNCHANGED <<shInvoked, apPc, applyStarted>>
    ELSE /\ shInvoked' = Append(shInvoked, handlers[j])
         /\ shIdx' = j
         /\ shPc' = "await"
         /\ UNCHANGED procVars
         /\ IF handlers[j] = "stash" /\ stashHash # "null"
            THEN StartApply("handler")
            ELSE UNCHANGED <<apPc, applyStarted>>

NeverForced == FALSE
\* if (this.isShuttingDown): a signal while cleanup is already under way.
AlreadyShuttingDown == isShuttingDown

\* A termination signal (SIGINT or SIGTERM) is delivered. Without the
\* singleton no listener is installed and the signal kills the process.
Signal ==
    /\ HandlerMayRun
    /\ signals < MaxSignals
    /\ signals' = signals + 1
    /\ IF manager = "null"
       THEN /\ exitKind' = "killed"
            /\ UNCHANGED <<exitCode, isShuttingDown, shPc, shIdx, shSnapshot,
                           shInvoked, apPc, applyStarted>>
       ELSE IF AlreadyShuttingDown
       THEN /\ Exit(ExitFailure)
            /\ UNCHANGED <<isShuttingDown, shPc, shIdx, shSnapshot, shInvoked,
                           apPc, applyStarted>>
       ELSE /\ isShuttingDown' = TRUE
            /\ shSnapshot' = handlers
            /\ LoopFrom(Len(handlers))
    /\ UNCHANGED <<atomicVars, rbVars, repoVars, stashVars, manager, handlers,
                   cmdVars, driverVars, rbHist, shThrew>>
    /\ sigInCreate' = (sigInCreate \/ (pc = "install" /\ addedByCmd /\ ~committed))
    /\ UNCHANGED <<applyDone, stepFailed, addedByCmd, issued, dirtyAction>>
    /\ UNCHANGED <<rmVars, fnVars>>

\* The awaited cleanup callback settles (resolved, or rejected and logged) and
\* the loop moves to the next lower index.
ShHandlerEnd ==
    /\ HandlerMayRun
    /\ shPc = "await"
    /\ LET h == shInvoked[Len(shInvoked)] IN
         IF h = "stash"
         THEN /\ apPc["handler"] \in {"idle", "done"}
              /\ shThrew' = shThrew
         ELSE \E ok \in BOOLEAN : shThrew' = IF ok THEN shThrew ELSE shThrew \cup {h}
    /\ LoopFrom(shIdx - 1)
    /\ UNCHANGED <<atomicVars, rbVars, repoVars, stashVars, manager, handlers,
                   isShuttingDown, cmdVars, driverVars, rbHist, signals, shSnapshot>>
    /\ UNCHANGED <<applyDone, stepFailed, addedByCmd, sigInCreate, issued, dirtyAction>>
    /\ UNCHANGED <<rmVars, fnVars>>

(***************************************************************************)
(* The ShutdownManager driven through its public API while signals arrive. *)
(***************************************************************************)
Handlers == {"h1", "h2"}

outsideShutdown == <<atomicVars, rbVars, repoVars, stashVars, procVars, cmdVars, apPc,
                     rbHist, shHist, cmdHist>>

\* const unregister = onShutdown(h)
ApiRegister(h) ==
    /\ MainMayRun
    /\ ops < MaxOps
    /\ Len(handlers) < MaxHandlers
    /\ RegisterHandler(h)
    /\ held' = Append(held, [handler |-> h, called |-> FALSE])
    /\ ops' = ops + 1
    /\ lastCall' = "register"
    /\ UNCHANGED <<isShuttingDown, shPc, shIdx, outsideShutdown>>
    /\ UNCHANGED <<rmVars, fnVars>>

\* unregister(), for the k-th closure obtained (it may be called again)
ApiUnregister(k) ==
    /\ MainMayRun
    /\ ops < MaxOps
    /\ k \in 1..Len(held)
    /\ handlers' = Unregister(handlers, held[k].handler)
    /\ held' = [held EXCEPT ![k].called = TRUE]
    /\ ops' = ops + 1
    /\ lastCall' = "unregister"
    /\ UNCHANGED <<manager, isShuttingDown, shPc, shIdx, outsideShutdown>>
    /\ UNCHANGED <<rmVars, fnVars>>

\* withCleanup(operation, cleanup), for an operation that leaves the manager
\* alone and settles (resolves or rejects) before anything else is scheduled:
\* the cleanup is registered, the operation runs, and the finally block calls
\* the closure register returned.
ApiWithCleanup(h) ==
    /\ MainMayRun
    /\ ops < MaxOps
    /\ Len(handlers) < MaxHandlers
    /\ \E ok \in BOOLEAN :
         /\ manager' = "created"
         /\ handlers' = Unregister(Append(handlers, h), h)
         /\ lastCall' = IF ok THEN "withCleanup" ELSE "withCleanup:threw"
    /\ ops' = ops + 1
    /\ UNCHANGED <<isShuttingDown, shPc, shIdx, held, outsideShutdown>>
    /\ UNCHANGED <<rmVars, fnVars>>

InitShutdown ==
    /\ IdleTracker /\ IdleDriver /\ IdleProcess /\ IdleShutdown /\ IdleCommand
    /\ IdleRemoval /\ IdleUtils
    /\ wtEntry = FALSE /\ dirExists = FALSE
    /\ localBranch = FALSE /\ remoteBranch = FALSE

NextShutdown ==
    \/ \E h \in Handlers : ApiRegister(h)
    \/ \E k \in 1..MaxOps : ApiUnregister(k)
    \/ \E h \in Handlers : ApiWithCleanup(h)
    \/ Signal
    \/ ShHandlerEnd

SpecShutdown == InitShutdown /\ [][NextShutdown]_vars

(***************************************************************************)
(* newWorktreeHandler (the create command)                                 *)
(***************************************************************************)
outsideCommand == <<driverVars, rbSnapshot, invoked, finishedCnt, threwIds,
                    invokedTotal, wtRb, signals, shSnapshot, shInvoked, shThrew>>

\* What a step of the main flow that only moves on leaves alone.
checkLocals == <<isBare, isClean>>
cmdLocals == <<opt, stashHash, unregisterShutdown, directoryExists, branchExists,
               checkLocals>>

flowCore == <<atomicVars, rbVars, repoVars, stashVars, shVars, apPc, outsideCommand,
              nextId, regOrder, commitCalled>>
flowFrame == <<flowCore, cmdHist>>

\* isMainRepoBare(): core.bare of the repository; false when the query fails.
isMainRepoBare(fail) == IF fail THEN FALSE ELSE opt.bare

\* isWorktreeClean("."): git status --porcelain printed nothing; false when
\* git status itself fails.
isWorktreeClean(fail) == IF fail THEN FALSE ELSE ~mainDirty

YesNo(b) == IF b THEN "yes" ELSE "no"

\* git rev-parse --is-inside-work-tree
NewRevParse ==
    /\ MainMayRun /\ pc = "revParse"
    /\ \E ok \in BOOLEAN :
         IF ok THEN pc' = "validate" /\ UNCHANGED procVars
               ELSE Exit(ExitFailure) /\ pc' = pc
    /\ UNCHANGED cmdLocals
    /\ UNCHANGED flowFrame
    /\ UNCHANGED <<rmVars, fnVars>>

\* The two checks of the branch name (missing or blank, validateBranchName):
\* a rejected name exits with status 1 inside the try block.
NewValidate ==
    /\ MainMayRun /\ pc = "validate"
    /\ IF opt.branchOk
       THEN pc' = "isBare" /\ UNCHANGED procVars
       ELSE Exit(ExitFailure) /\ pc' = pc
    /\ UNCHANGED cmdLocals
    /\ UNCHANGED flowFrame
    /\ UNCHANGED <<rmVars, fnVars>>

\* isMainRepoBare() never throws; when the query fails it answers false.
NewIsBare ==
    /\ MainMayRun /\ pc = "isBare"
    /\ \E fail \in BOOLEAN :
         /\ isBare' = YesNo(isMainRepoBare(fail))
         /\ pc' = IF isMainRepoBare(fail) THEN "resolvePath" ELSE "isClean"
    /\ UNCHANGED <<opt, stashHash, unregisterShutdown, directoryExists, branchExists, isClean>>
    /\ UNCHANGED <<procVars, flowFrame>>
    /\ UNCHANGED <<rmVars, fnVars>>

\* isWorktreeClean(".") never throws; when git status fails it answers false.
NewIsClean ==
    /\ MainMayRun /\ pc = "isClean"
    /\ \E fail \in BOOLEAN :
         /\ isClean' = YesNo(isWorktreeClean(fail))
         /\ pc' = IF isWorktreeClean(fail) THEN "resolvePath" ELSE "prompt"
    /\ UNCHANGED <<opt, stashHash, unregisterShutdown, directoryExists, branchExists, isBare>>
    /\ UNCHANGED <<procVars, flowFrame>>
    /\ UNCHANGED <<rmVars, fnVars>>

AlwaysStash(action) == TRUE
\* else if (action === 'stash')
StashChosen(action) == action = "stash"

NeverCancels(action) == FALSE
\* if (action === 'abort')
Cancels(action) == action = "abort"

\* handleDirtyState(): abort exits with status 0, stash goes on to stash,
\* continue proceeds with the changes in place.
NewPrompt ==
    /\ MainMayRun /\ pc = "prompt"
    /\ \E action \in {"abort", "stash", "continue"} :
         /\ dirtyAction' = action
         /\ IF Cancels(action)
            THEN Exit(ExitCancelled) /\ pc' = pc
            ELSE /\ pc' = IF StashChosen(action) THEN "stash" ELSE "resolvePath"
                 /\ UNCHANGED procVars
    /\ UNCHANGED cmdLocals
    /\ UNCHANGED <<flowCore, applyStarted, applyDone, stepFailed, addedByCmd,
                   sigInCreate, issued>>
    /\ UNCHANGED <<rmVars, fnVars>>

\* stashChanges(): a stash reference, null when there was nothing to stash,
\* or an error. With a reference the cleanup callback is registered.
NewStash ==
    /\ MainMayRun /\ pc = "stash"
    /\ \E outcome \in {"hash", "null", "throw"} :
         IF outcome = "hash" /\ mainDirty
         THEN /\ mainDirty' = FALSE
              /\ stashPresent' = TRUE
              /\ stashHash' = "hash"
              /\ RegisterHandler("stash")
              /\ unregisterShutdown' = "stash"
              /\ pc' = "resolvePath"
              /\ UNCHANGED procVars
         ELSE IF outcome = "null" /\ ~mainDirty
         THEN /\ pc' = "resolvePath"
              /\ UNCHANGED <<stashVars, stashHash, manager, handlers,
                             unregisterShutdown, procVars>>
         ELSE /\ Exit(ExitFailure)
              /\ UNCHANGED <<stashVars, stashHash, manager, handlers,
                             unregisterShutdown, pc>>
    /\ Issue("stashPush")
    /\ UNCHANGED <<opt, directoryExists, branchExists, checkLocals>>
    /\ UNCHANGED <<atomicVars, rbVars, repoVars, isShuttingDown, shPc, shIdx, apPc,
                   outsideCommand, nextId, regOrder, commitCalled>>
    /\ UNCHANGED <<applyStarted, applyDone, stepFailed, addedByCmd, sigInCreate, dirtyAction>>
    /\ UNCHANGED <<rmVars, fnVars>>

\* resolveWorktreePath(): computes the path; the state is left alone.
NewResolvePath ==
    /\ MainMayRun /\ pc = "resolvePath"
    /\ pc' = "stat"
    /\ UNCHANGED cmdLocals
    /\ UNCHANGED <<procVars, flowFrame>>
    /\ UNCHANGED <<rmVars, fnVars>>

\* stat(resolvedPath)
NewStat ==
    /\ MainMayRun /\ pc = "stat"
    /\ directoryExists' = dirExists
    /\ pc' = "branchLookup"
    /\ UNCHANGED <<opt, stashHash, unregisterShutdown, branchExists, checkLocals>>
    /\ UNCHANGED <<procVars, flowFrame>>
    /\ UNCHANGED <<rmVars, fnVars>>

TreatAsNew(found) == FALSE
\* if (directoryExists): the existing directory is used and nothing is created.
UseExisting(found) == found

\* getUpstreamRemote(), git branch --list, git branch -r --list: any of them
\* may fail; then the branch on directoryExists.
NewBranchLookup ==
    /\ MainMayRun /\ pc = "branchLookup"
    /\ \E ok \in BOOLEAN :
         IF ok
         THEN /\ branchExists' = (localBranch \/ remoteBranch)
              /\ pc' = IF UseExisting(directoryExists) THEN "statGit" ELSE "create"
              /\ UNCHANGED procVars
         ELSE /\ Exit(ExitFailure)
              /\ UNCHANGED <<branchExists, pc>>
    /\ UNCHANGED <<opt, stashHash, unregisterShutdown, directoryExists, checkLocals>>
    /\ UNCHANGED flowFrame
    /\ UNCHANGED <<rmVars, fnVars>>

\* The directory is already there: stat(<path>/.git), and nothing is created.
NewStatGit ==
    /\ MainMayRun /\ pc = "statGit"
    /\ pc' = "editor"
    /\ UNCHANGED cmdLocals
    /\ UNCHANGED <<procVars, flowFrame>>
    /\ UNCHANGED <<rmVars, fnVars>>

AlwaysNewBranch(exists) == TRUE
\* if (!branchExists) createWorktree(path, branch, true)
\* else createWorktree(path, branch, false)
CreateBranchFlag(exists) == ~exists

\* atomic.createWorktree(resolvedPath, branchName, !branchExists): the
\* arguments are worktree add -b <branch> <path> with the flag and
\* worktree add <path> <branch> without it.
NewCreate ==
    /\ MainMayRun /\ pc = "create"
    /\ LET createBranch == CreateBranchFlag(branchExists) IN
       /\ \E ok \in BOOLEAN :
            LET good == ok /\ AddCanSucceed(createBranch) IN
            /\ CreateWorktreeBody(createBranch, good)
            /\ addedByCmd' = good
            /\ stepFailed' = ~good
            /\ pc' = IF ~good THEN "catch"
                     ELSE IF opt.install THEN "install" ELSE "commit"
       /\ issued' = issued \cup {"worktreeAdd"}
                           \cup (IF createBranch THEN {"-b"} ELSE {})
    /\ UNCHANGED cmdLocals
    /\ UNCHANGED <<rbVars, stashVars, procVars, shVars, apPc, outsideCommand,
                   commitCalled, applyStarted, applyDone, sigInCreate, dirtyAction>>
    /\ UNCHANGED <<rmVars, fnVars>>

\* atomic.runInstall(options.install, resolvedPath)
NewInstall ==
    /\ MainMayRun /\ pc = "install"
    /\ \E ok \in BOOLEAN :
         /\ stepFailed' = ~ok
         /\ pc' = IF ok THEN "commit" ELSE "catch"
    /\ Issue("install")
    /\ UNCHANGED cmdLocals
    /\ UNCHANGED <<atomicVars, rbVars, repoVars, stashVars, procVars, shVars, apPc,
                   outsideCommand, nextId, regOrder, commitCalled>>
    /\ UNCHANGED <<applyStarted, applyDone, addedByCmd, sigInCreate, dirtyAction>>
    /\ UNCHANGED <<rmVars, fnVars>>

\* atomic.commit()
NewCommit ==
    /\ MainMayRun /\ pc = "commit"
    /\ CommitBody
    /\ pc' = "editor"
    /\ UNCHANGED cmdLocals
    /\ UNCHANGED <<rbVars, repoVars, stashVars, procVars, shVars, apPc,
                   outsideCommand, cmdHist>>
    /\ UNCHANGED <<rmVars, fnVars>>

\* catch (error) { ...; await atomic.rollback(); throw error }
NewCatch ==
    /\ MainMayRun /\ pc = "catch"
    /\ RollbackEnter
    /\ pc' = "rollback"
    /\ UNCHANGED cmdLocals
    /\ UNCHANGED <<repoVars, stashVars, procVars, shVars, apPc, driverVars, signals,
                   shSnapshot, shInvoked, shThrew, cmdHist>>
    /\ UNCHANGED <<rmVars, fnVars>>

\* rollback() has returned: the error is thrown again and the outer catch
\* ends the process with status 1.
NewRethrow ==
    /\ MainMayRun /\ pc = "rollback" /\ rbPc = "returned"
    /\ Exit(ExitFailure)
    /\ UNCHANGED cmdVars
    /\ UNCHANGED flowFrame
    /\ UNCHANGED <<rmVars, fnVars>>

KeepsRegistered(list, u) == list
\* finally { if (unregisterShutdown) unregisterShutdown(); ... }
FinallyUnregister(list, u) == IF u # "null" THEN Unregister(list, u) ELSE list

\* The editor is opened unless it is 'none'; a failure to launch is logged.
\* Then the finally block: unregisterShutdown(), and if a stash was taken
\* applyAndDropStash(stashHash, ".") is called.
NewEditor ==
    /\ MainMayRun /\ pc = "editor"
    /\ handlers' = FinallyUnregister(handlers, unregisterShutdown)
    /\ IF stashHash # "null"
       THEN StartApply("main") /\ pc' = "restore"
       ELSE UNCHANGED <<apPc, applyStarted>> /\ pc' = "end"
    /\ issued' = IF opt.editor THEN issued \cup {"editor"} ELSE issued
    /\ UNCHANGED cmdLocals
    /\ UNCHANGED <<atomicVars, rbVars, repoVars, stashVars, procVars, manager,
                   isShuttingDown, shPc, shIdx, outsideCommand, nextId, regOrder,
                   commitCalled, applyDone, stepFailed, addedByCmd, sigInCreate, dirtyAction>>
    /\ UNCHANGED <<rmVars, fnVars>>

\* applyAndDropStash has returned to the finally block.
NewRestored ==
    /\ MainMayRun /\ pc = "restore" /\ apPc["main"] = "done"
    /\ pc' = "end"
    /\ UNCHANGED cmdLocals
    /\ UNCHANGED <<procVars, flowFrame>>
    /\ UNCHANGED <<rmVars, fnVars>>

\* The handler has returned and nothing is pending: the process ends with
\* status 0. A handleShutdown in progress keeps it alive until its own exit.
ProcessEnd ==
    /\ MainMayRun /\ pc = "end" /\ shPc = "idle"
    /\ exitKind' = "end"
    /\ exitCode' = 0
    /\ UNCHANGED cmdVars
    /\ UNCHANGED flowFrame
    /\ UNCHANGED <<rmVars, fnVars>>

InitNew ==
    /\ IdleTracker /\ IdleDriver /\ IdleProcess /\ IdleShutdown /\ IdleRemoval /\ IdleUtils
    /\ pc = "revParse"
    /\ opt \in [branchOk : BOOLEAN, install : BOOLEAN, editor : BOOLEAN, bare : BOOLEAN]
    /\ stashHash = "null" /\ unregisterShutdown = "null"
    /\ directoryExists = FALSE /\ branchExists = FALSE
    /\ isBare = "unset" /\ isClean = "unset"
    /\ apPc = [w \in {"main", "handler"} |-> "idle"]
    /\ mainDirty \in BOOLEAN /\ stashPresent = FALSE
    /\ applyStarted = 0 /\ applyDone = 0 /\ stepFailed = FALSE /\ addedByCmd = FALSE
    /\ sigInCreate = FALSE /\ issued = {} /\ dirtyAction = "none"
    /\ dirExists \in BOOLEAN
    /\ wtEntry \in BOOLEAN
    /\ wtEntry => dirExists
    /\ localBranch \in BOOLEAN
    /\ remoteBranch \in BOOLEAN

NextNew ==
    \/ NewRevParse
    \/ NewValidate
    \/ NewIsBare
    \/ NewIsClean
    \/ NewPrompt
    \/ NewStash
    \/ NewResolvePath
    \/ NewStat
    \/ NewBranchLookup
    \/ NewStatGit
    \/ NewCreate
    \/ NewInstall
    \/ NewCommit
    \/ NewCatch
    \/ RollbackInvoke
    \/ RollbackRemove
    \/ RollbackRmDir
    \/ RollbackFinish
    \/ NewRethrow
    \/ NewEditor
    \/ \E who \in {"main", "handler"} : ApplyStashApply(who)
    \/ \E who \in {"main", "handler"} : ApplyStashDrop(who)
    \/ NewRestored
    \/ ProcessEnd
    \/ Signal
    \/ ShHandlerEnd

SpecNew == InitNew /\ [][NextNew]_vars

(***************************************************************************)
(* extractWorktreeHandler (the extract command)                            *)
(***************************************************************************)

\* git rev-parse --is-inside-work-tree
ExtRevParse ==
    /\ MainMayRun /\ pc = "xRevParse"
    /\ \E ok \in BOOLEAN :
         IF ok THEN pc' = "xIsBare" /\ UNCHANGED procVars
               ELSE Exit(ExitFailure) /\ pc' = pc
    /\ UNCHANGED <<cmdLocals, flowFrame>>
    /\ UNCHANGED <<rmVars, fnVars>>

\* isMainRepoBare()
ExtIsBare ==
    /\ MainMayRun /\ pc = "xIsBare"
    /\ \E fail \in BOOLEAN :
         /\ isBare' = YesNo(isMainRepoBare(fail))
         /\ pc' = IF isMainRepoBare(fail) THEN "xSelect" ELSE "xIsClean"
    /\ UNCHANGED <<opt, stashHash, unregisterShutdown, directoryExists, branchExists, isClean>>
    /\ UNCHANGED <<procVars, flowFrame>>
    /\ UNCHANGED <<rmVars, fnVars>>

\* isWorktreeClean(".")
ExtIsClean ==
    /\ MainMayRun /\ pc = "xIsClean"
    /\ \E fail \in BOOLEAN :
         /\ isClean' = YesNo(isWorktreeClean(fail))
         /\ pc' = IF isWorktreeClean(fail) THEN "xSelect" ELSE "xPrompt"
    /\ UNCHANGED <<opt, stashHash, unregisterShutdown, directoryExists, branchExists, isBare>>
    /\ UNCHANGED <<procVars, flowFrame>>
    /\ UNCHANGED <<rmVars, fnVars>>

\* handleDirtyState()
ExtPrompt ==
    /\ MainMayRun /\ pc = "xPrompt"
    /\ \E action \in {"abort", "stash", "continue"} :
         /\ dirtyAction' = action
         /\ IF Cancels(action)
            THEN Exit(ExitCancelled) /\ pc' = pc
            ELSE /\ pc' = IF StashChosen(action) THEN "xStash" ELSE "xSelect"
                 /\ UNCHANGED procVars
    /\ UNCHANGED <<cmdLocals, flowCore, applyStarted, applyDone, stepFailed,
                   addedByCmd, sigInCreate, issued>>
    /\ UNCHANGED <<rmVars, fnVars>>

\* stashChanges(); no cleanup callback is registered by this command.
ExtStash ==
    /\ MainMayRun /\ pc = "xStash"
    /\ \E outcome \in {"hash", "null", "throw"} :
         IF outcome = "hash" /\ mainDirty
         THEN /\ mainDirty' = FALSE
              /\ stashPresent' = TRUE
              /\ stashHash' = "hash"
              /\ pc' = "xSelect"
              /\ UNCHANGED procVars
         ELSE IF outcome = "null" /\ ~mainDirty
         THEN /\ pc' = "xSelect"
              /\ UNCHANGED <<stashVars, stashHash, procVars>>
         ELSE /\ Exit(ExitFailure)
              /\ UNCHANGED <<stashVars, stashHash, pc>>
    /\ Issue("stashPush")
    /\ UNCHANGED <<opt, unregisterShutdown, directoryExists, branchExists, checkLocals>>
    /\ UNCHANGED <<atomicVars, rbVars, repoVars, shVars, apPc, outsideCommand,
                   nextId, regOrder, commitCalled>>
    /\ UNCHANGED <<applyStarted, applyDone, stepFailed, addedByCmd, sigInCreate, dirtyAction>>
    /\ UNCHANGED <<rmVars, fnVars>>

\* The branch to extract: the argument, or the current branch (git branch
\* --show-current may fail or print nothing); then validateBranchName.
ExtSelectBranch ==
    /\ MainMayRun /\ pc = "xSelect"
    /\ \E current \in {"name", "empty", "throw"} :
         IF (opt.named \/ current = "name") /\ opt.branchOk
         THEN pc' = "xWorktrees" /\ UNCHANGED procVars
         ELSE Exit(ExitFailure) /\ pc' = pc
    /\ UNCHANGED <<cmdLocals, flowFrame>>
    /\ UNCHANGED <<rmVars, fnVars>>

\* getWorktrees(): a branch that is checked out in a worktree is refused.
ExtWorktrees ==
    /\ MainMayRun /\ pc = "xWorktrees"
    /\ \E out \in {"free", "taken", "throw"} :
         IF out = "free" /\ ~wtEntry
         THEN pc' = "xLookup" /\ UNCHANGED procVars
         ELSE Exit(ExitFailure) /\ pc' = pc
    /\ UNCHANGED <<cmdLocals, flowFrame>>
    /\ UNCHANGED <<rmVars, fnVars>>

\* getUpstreamRemote() and the two branch listings; the branch must exist.
ExtBranchLookup ==
    /\ MainMayRun /\ pc = "xLookup"
    /\ \E ok \in BOOLEAN :
         IF ok /\ (localBranch \/ remoteBranch)
         THEN /\ branchExists' = TRUE
              /\ pc' = "xResolvePath"
              /\ UNCHANGED procVars
         ELSE /\ Exit(ExitFailure)
              /\ UNCHANGED <<branchExists, pc>>
    /\ UNCHANGED <<opt, stashHash, unregisterShutdown, directoryExists, checkLocals>>
    /\ UNCHANGED flowFrame
    /\ UNCHANGED <<rmVars, fnVars>>

\* resolveWorktreePath()
ExtResolvePath ==
    /\ MainMayRun /\ pc = "xResolvePath"
    /\ pc' = "xStat"
    /\ UNCHANGED <<cmdLocals, procVars, flowFrame>>
    /\ UNCHANGED <<rmVars, fnVars>>

\* stat(resolvedPath): an existing directory is refused.
ExtStat ==
    /\ MainMayRun /\ pc = "xStat"
    /\ IF dirExists
       THEN Exit(ExitFailure) /\ pc' = pc
       ELSE pc' = "xCreate" /\ UNCHANGED procVars
    /\ UNCHANGED <<cmdLocals, flowFrame>>
    /\ UNCHANGED <<rmVars, fnVars>>

\* atomic.createWorktreeFromRemote for a remote-only branch, otherwise
\* atomic.createWorktree(resolvedPath, selectedBranch, false).
ExtCreate ==
    /\ MainMayRun /\ pc = "xCreate"
    /\ \E ok \in BOOLEAN :
         LET good == ok /\ AddCanSucceed(FALSE) IN
         /\ IF ~localBranch /\ remoteBranch
            THEN CreateWorktreeFromRemoteBody(good)
            ELSE CreateWorktreeBody(FALSE, good)
         /\ addedByCmd' = good
         /\ stepFailed' = ~good
         /\ pc' = IF ~good THEN "catch" ELSE IF opt.install THEN "install" ELSE "commit"
    /\ Issue("worktreeAdd")
    /\ UNCHANGED cmdLocals
    /\ UNCHANGED <<rbVars, stashVars, procVars, shVars, apPc, outsideCommand,
                   commitCalled, applyStarted, applyDone, sigInCreate, dirtyAction>>
    /\ UNCHANGED <<rmVars, fnVars>>

InitExtract ==
    /\ IdleTracker /\ IdleDriver /\ IdleProcess /\ IdleShutdown /\ IdleRemoval /\ IdleUtils
    /\ pc = "xRevParse"
    /\ opt \in [branchOk : BOOLEAN, install : BOOLEAN, editor : BOOLEAN,
                bare : BOOLEAN, named : BOOLEAN]
    /\ ~opt.named => opt.branchOk
    /\ stashHash = "null" /\ unregisterShutdown = "null"
    /\ directoryExists = FALSE /\ branchExists = FALSE
    /\ isBare = "unset" /\ isClean = "unset"
    /\ apPc = [w \in {"main", "handler"} |-> "idle"]
    /\ mainDirty \in BOOLEAN /\ stashPresent = FALSE
    /\ applyStarted = 0 /\ applyDone = 0 /\ stepFailed = FALSE /\ addedByCmd = FALSE
    /\ sigInCreate = FALSE /\ issued = {} /\ dirtyAction = "none"
    /\ dirExists \in BOOLEAN
    /\ wtEntry \in BOOLEAN
    /\ wtEntry => dirExists
    /\ localBranch \in BOOLEAN
    /\ remoteBranch \in BOOLEAN

\* From the install step on the handler repeats newWorktreeHandler, without a
\* cleanup callback to unregister.
NextExtract ==
    \/ ExtRevParse
    \/ ExtIsBare
    \/ ExtIsClean
    \/ ExtPrompt
    \/ ExtStash
    \/ ExtSelectBranch
    \/ ExtWorktrees
    \/ ExtBranchLookup
    \/ ExtResolvePath
    \/ ExtStat
    \/ ExtCreate
    \/ NewInstall
    \/ NewCommit
    \/ NewCatch
    \/ RollbackInvoke
    \/ RollbackRemove
    \/ RollbackRmDir
    \/ RollbackDeleteBranch
    \/ RollbackFinish
    \/ NewRethrow
    \/ NewEditor
    \/ ApplyStashApply("main")
    \/ ApplyStashDrop("main")
    \/ NewRestored
    \/ ProcessEnd
    \/ Signal

SpecExtract == InitExtract /\ [][NextExtract]_vars

(***************************************************************************)
(* removeWorktreeHandler and purgeWorktreesHandler                         *)
(***************************************************************************)
WtIds == {"main", "w1", "w2"}

purgeLocals == <<selectedWorktrees, wtIdx, removedSuccessfully, processed>>

\* What the two commands never touch.
rmFrame == <<atomicVars, rbVars, repoVars, stashVars, shVars, apPc, driverVars, rbHist,
             shHist, stashHash, unregisterShutdown, directoryExists, branchExists,
             checkLocals, applyStarted, applyDone, stepFailed, addedByCmd,
             sigInCreate, dirtyAction, opt, fnVars>>

\* The command issues an external command or prompt of kind k for worktree id.
IssueFor(k, id) == issued' = issued \cup {<<k, id>>}

\* getWorktrees(): the worktrees git lists.
Listed == {id \in WtIds : worktrees[id].entry}

\* selectWorktree({excludeMain}): the choices offered to the user.
Selectable(excludeMain) ==
    {id \in Listed : excludeMain => ~worktrees[id].isMain}

\* git worktree remove [--force] <path>: git refuses the main worktree and a
\* locked one (a single --force does not override a lock), and refuses one
\* with modified or untracked files unless forced; ok is whether nothing
\* else went wrong.
GitRemoveOk(id, force, ok) ==
    /\ ok /\ worktrees[id].entry
    /\ ~worktrees[id].isMain /\ ~worktrees[id].locked
    /\ force \/ ~worktrees[id].modified

\* The stderr of a failed removal, as far as the handlers tell it apart.
GitRemoveStderr(id, force) ==
    IF /\ worktrees[id].entry /\ ~worktrees[id].isMain /\ ~worktrees[id].locked
       /\ worktrees[id].modified /\ ~force
    THEN "modified or untracked files"
    ELSE "other"

\* A successful removal deletes the entry; git may leave the directory behind.
GitRemoved(id) ==
    \E left \in BOOLEAN :
        worktrees' = [worktrees EXCEPT ![id].entry = FALSE,
                                       ![id].dir = (left /\ worktrees[id].dir)]

\* stat(path) then rm(path, {recursive, force}); rm may fail.
RmDirectory(id) ==
    IF worktrees[id].dir
    THEN \E ok \in BOOLEAN :
           /\ worktrees' = [worktrees EXCEPT ![id].dir = ~ok]
           /\ IssueFor("rm", id)
    ELSE UNCHANGED <<worktrees, issued>>

\* ---- remove ----
\* git rev-parse --is-inside-work-tree
RmRevParse ==
    /\ Alive /\ pc = "rRevParse"
    /\ \E ok \in BOOLEAN :
         IF ok THEN pc' = "rResolve" /\ UNCHANGED procVars
               ELSE Exit(ExitFailure) /\ pc' = pc
    /\ UNCHANGED <<rmFrame, issued, rmVars>>

\* The target: interactive selection without an argument (nothing selected
\* exits with status 0), otherwise findWorktreeByPath / findWorktreeByBranch
\* (nothing found, or a failing query, exits with status 1).
RmResolve ==
    /\ Alive /\ pc = "rResolve"
    /\ \E t \in (IF opt.arg THEN Listed ELSE Selectable(TRUE)) \cup {"null"} :
         IF t = "null"
         THEN /\ Exit(IF opt.arg THEN ExitFailure ELSE ExitCancelled)
              /\ UNCHANGED <<pc, targetWorktree>>
         ELSE /\ targetWorktree' = t
              /\ pc' = "rGuards"
              /\ UNCHANGED procVars
    /\ UNCHANGED <<rmFrame, issued, worktrees, purgeLocals>>

NoMainGuard(id) == FALSE
\* if (targetWorktree.isMain)
IsMainTarget(id) == worktrees[id].isMain

NoLockGuard(id) == FALSE
\* if (targetWorktree.locked) { if (!options.force) ... }
LockedRefused(id) == worktrees[id].locked /\ ~opt.force

\* The two refusals, then whether a confirmation is asked.
RmGuards ==
    /\ Alive /\ pc = "rGuards"
    /\ IF IsMainTarget(targetWorktree) \/ LockedRefused(targetWorktree)
       THEN Exit(ExitFailure) /\ pc' = pc
       ELSE /\ pc' = IF ~opt.force /\ opt.tty THEN "rConfirm" ELSE "rRemove"
            /\ UNCHANGED procVars
    /\ UNCHANGED <<rmFrame, issued, rmVars>>

\* confirm("Are you sure you want to remove this worktree?")
RmConfirm ==
    /\ Alive /\ pc = "rConfirm"
    /\ \E confirmed \in BOOLEAN :
         /\ IssueFor(IF confirmed THEN "confirm:yes" ELSE "confirm:no", targetWorktree)
         /\ IF confirmed
            THEN pc' = "rRemove" /\ UNCHANGED procVars
            ELSE Exit(ExitCancelled) /\ pc' = pc
    /\ UNCHANGED <<rmFrame, rmVars>>

\* git worktree remove [--force] targetPath, and the dispatch of the catch.
RmRemove ==
    /\ Alive /\ pc = "rRemove"
    /\ IssueFor(IF opt.force THEN "removeForce" ELSE "remove", targetWorktree)
    /\ \E ok \in BOOLEAN :
         IF GitRemoveOk(targetWorktree, opt.force, ok)
         THEN /\ GitRemoved(targetWorktree)
              /\ pc' = "rRmDir"
              /\ UNCHANGED procVars
         ELSE /\ UNCHANGED worktrees
              /\ IF /\ GitRemoveStderr(targetWorktree, opt.force)
                         = "modified or untracked files"
                    /\ ~opt.force
                 THEN pc' = "rConfirm2" /\ UNCHANGED procVars
                 ELSE Exit(ExitFailure) /\ pc' = pc
    /\ UNCHANGED <<rmFrame, targetWorktree, purgeLocals>>

ForceAnyway(answer) == TRUE
\* if (forceRemove)
ForceConfirmed(answer) == answer

\* confirm("Do you want to force remove this worktree ...?")
RmConfirm2 ==
    /\ Alive /\ pc = "rConfirm2"
    /\ \E forceRemove \in BOOLEAN :
         /\ IssueFor(IF forceRemove THEN "confirm2:yes" ELSE "confirm2:no",
                     targetWorktree)
         /\ IF ForceConfirmed(forceRemove)
            THEN pc' = "rForce" /\ UNCHANGED procVars
            ELSE Exit(ExitCancelled) /\ pc' = pc
    /\ UNCHANGED <<rmFrame, rmVars>>

\* git worktree remove --force targetPath; a failure leaves the catch block
\* and reaches the outer catch.
RmForce ==
    /\ Alive /\ pc = "rForce"
    /\ IssueFor("removeForce", targetWorktree)
    /\ \E ok \in BOOLEAN :
         IF GitRemoveOk(targetWorktree, TRUE, ok)
         THEN /\ GitRemoved(targetWorktree)
              /\ pc' = "rRmDir"
              /\ UNCHANGED procVars
         ELSE /\ UNCHANGED worktrees
              /\ Exit(ExitFailure) /\ pc' = pc
    /\ UNCHANGED <<rmFrame, targetWorktree, purgeLocals>>

\* The residual directory: stat and rm inside one try whose catch is empty;
\* then success is reported and the handler returns.
RmRmDir ==
    /\ Alive /\ pc = "rRmDir"
    /\ RmDirectory(targetWorktree)
    /\ pc' = "end"
    /\ UNCHANGED <<rmFrame, procVars, targetWorktree, purgeLocals>>

\* ---- purge ----
\* The selections a user can make: distinct worktrees, in the order chosen.
Selections(choices) ==
    {<<>>} \cup {<<a>> : a \in choices}
           \cup UNION {{<<a, b>> : b \in choices \ {a}} : a \in choices}

\* git rev-parse --is-inside-work-tree
PgRevParse ==
    /\ Alive /\ pc = "pRevParse"
    /\ \E ok \in BOOLEAN :
         IF ok THEN pc' = "pList" /\ UNCHANGED procVars
               ELSE Exit(ExitFailure) /\ pc' = pc
    /\ UNCHANGED <<rmFrame, issued, rmVars>>

\* getWorktrees() and the filter on isMain: with nothing but the main
\* worktree the handler returns.
PgList ==
    /\ Alive /\ pc = "pList"
    /\ \E ok \in BOOLEAN :
         IF ~ok
         THEN Exit(ExitFailure) /\ pc' = pc
         ELSE /\ pc' = IF {id \in Listed : ~worktrees[id].isMain} = {}
                       THEN "end" ELSE "pSelect"
              /\ UNCHANGED procVars
    /\ UNCHANGED <<rmFrame, issued, rmVars>>

\* selectWorktree({excludeMain: true, multiSelect: true}); an empty
\* selection returns.
PgSelect ==
    /\ Alive /\ pc = "pSelect"
    /\ \E sel \in Selections(Selectable(TRUE)) :
         /\ selectedWorktrees' = sel
         /\ pc' = IF sel = <<>> THEN "end" ELSE "pConfirm"
    /\ UNCHANGED <<rmFrame, procVars, issued, worktrees, targetWorktree, wtIdx,
                   removedSuccessfully, processed>>

\* confirm("Are you sure you want to remove these worktrees?")
PgConfirm ==
    /\ Alive /\ pc = "pConfirm"
    /\ \E confirmed \in BOOLEAN :
         IF confirmed
         THEN pc' = "pIter" /\ wtIdx' = 1
         ELSE pc' = "end" /\ wtIdx' = wtIdx
    /\ UNCHANGED <<rmFrame, procVars, issued, worktrees, targetWorktree,
                   selectedWorktrees, removedSuccessfully, processed>>

\* The head of the for-of loop and the start of an iteration.
PgIter ==
    /\ Alive /\ pc = "pIter"
    /\ IF wtIdx > Len(selectedWorktrees)
       THEN /\ pc' = "end"
            /\ UNCHANGED <<removedSuccessfully, processed>>
       ELSE /\ processed' = Append(processed, selectedWorktrees[wtIdx])
            /\ removedSuccessfully' = FALSE
            /\ pc' = IF worktrees[selectedWorktrees[wtIdx]].locked
                     THEN "pLockConfirm" ELSE "pRemove"
    /\ UNCHANGED <<rmFrame, procVars, issued, worktrees, targetWorktree,
                   selectedWorktrees, wtIdx>>

\* The iteration is over (entry removed, skipped or given up): the loop goes
\* on with the next selected worktree.
NextEntry ==
    /\ wtIdx' = wtIdx + 1
    /\ pc' = "pIter"
    /\ UNCHANGED procVars

AbortBatch == Exit(ExitFailure) /\ UNCHANGED <<pc, wtIdx>>
\* A removal failed: the catch logs it, removedSuccessfully stays false and
\* the iteration ends.
EntryFailed == NextEntry

\* confirm("Force remove this locked worktree?"): declined, continue.
PgLockConfirm ==
    /\ Alive /\ pc = "pLockConfirm"
    /\ \E forceUnlock \in BOOLEAN :
         /\ IssueFor(IF forceUnlock THEN "confirmLocked:yes" ELSE "confirmLocked:no",
                     selectedWorktrees[wtIdx])
         /\ IF forceUnlock
            THEN pc' = "pRemove" /\ UNCHANGED <<wtIdx, procVars>>
            ELSE NextEntry
    /\ UNCHANGED <<rmFrame, worktrees, targetWorktree, selectedWorktrees,
                   removedSuccessfully, processed>>

\* git worktree remove wt.path, and the dispatch of the catch.
PgRemove ==
    /\ Alive /\ pc = "pRemove"
    /\ LET wt == selectedWorktrees[wtIdx] IN
       /\ IssueFor("remove", wt)
       /\ \E ok \in BOOLEAN :
            IF GitRemoveOk(wt, FALSE, ok)
            THEN /\ GitRemoved(wt)
                 /\ removedSuccessfully' = TRUE
                 /\ pc' = "pRmDir"
                 /\ UNCHANGED <<wtIdx, procVars>>
            ELSE /\ UNCHANGED <<worktrees, removedSuccessfully>>
                 /\ IF GitRemoveStderr(wt, FALSE) = "modified or untracked files"
                    THEN pc' = "pConfirm2" /\ UNCHANGED <<wtIdx, procVars>>
                    ELSE EntryFailed
    /\ UNCHANGED <<rmFrame, targetWorktree, selectedWorktrees, processed>>

\* confirm("Force remove this worktree (may lose changes)?")
PgConfirm2 ==
    /\ Alive /\ pc = "pConfirm2"
    /\ \E forceAnswer \in BOOLEAN :
         /\ IssueFor(IF forceAnswer THEN "confirm2:yes" ELSE "confirm2:no",
                     selectedWorktrees[wtIdx])
         /\ IF forceAnswer
            THEN pc' = "pForce" /\ UNCHANGED <<wtIdx, procVars>>
            ELSE NextEntry
    /\ UNCHANGED <<rmFrame, worktrees, targetWorktree, selectedWorktrees,
                   removedSuccessfully, processed>>

\* git worktree remove --force wt.path in its own try/catch.
PgForce ==
    /\ Alive /\ pc = "pForce"
    /\ LET wt == selectedWorktrees[wtIdx] IN
       /\ IssueFor("removeForce", wt)
       /\ \E ok \in BOOLEAN :
            IF GitRemoveOk(wt, TRUE, ok)
            THEN /\ GitRemoved(wt)
                 /\ removedSuccessfully' = TRUE
                 /\ pc' = "pRmDir"
                 /\ UNCHANGED <<wtIdx, procVars>>
            ELSE /\ UNCHANGED <<worktrees, removedSuccessfully>>
                 /\ EntryFailed
    /\ UNCHANGED <<rmFrame, targetWorktree, selectedWorktrees, processed>>

\* if (removedSuccessfully): stat and rm; a failure is only warned about.
PgRmDir ==
    /\ Alive /\ pc = "pRmDir"
    /\ RmDirectory(selectedWorktrees[wtIdx])
    /\ NextEntry
    /\ UNCHANGED <<rmFrame, targetWorktree, selectedWorktrees, removedSuccessfully,
                   processed>>

\* ---- both commands ----
InitRemoval ==
    /\ IdleTracker /\ IdleDriver /\ IdleProcess /\ IdleShutdown /\ IdleUtils
    /\ wtEntry = FALSE /\ dirExists = FALSE
    /\ localBranch = FALSE /\ remoteBranch = FALSE
    /\ mainDirty = FALSE /\ stashPresent = FALSE
    /\ stashHash = "null" /\ unregisterShutdown = "null"
    /\ directoryExists = FALSE /\ branchExists = FALSE
    /\ isBare = "unset" /\ isClean = "unset"
    /\ apPc = [w \in {"main", "handler"} |-> "idle"]
    /\ applyStarted = 0 /\ applyDone = 0 /\ stepFailed = FALSE /\ addedByCmd = FALSE
    /\ sigInCreate = FALSE /\ issued = {} /\ dirtyAction = "none"
    /\ pc \in {"rRevParse", "pRevParse"}
    /\ opt \in [force : BOOLEAN, tty : BOOLEAN, arg : BOOLEAN]
    /\ pc = "pRevParse" => opt = [force |-> FALSE, tty |-> TRUE, arg |-> FALSE]
    /\ worktrees \in [WtIds -> [isMain : BOOLEAN, locked : BOOLEAN, modified : BOOLEAN,
                                entry : BOOLEAN, dir : BOOLEAN]]
    /\ worktrees["main"] = [isMain |-> TRUE, locked |-> FALSE, modified |-> FALSE,
                            entry |-> TRUE, dir |-> TRUE]
    /\ \A id \in WtIds \ {"main"} :
         /\ ~worktrees[id].isMain
         /\ worktrees[id].dir = worktrees[id].entry
         /\ ~worktrees[id].entry => (~worktrees[id].locked /\ ~worktrees[id].modified)
    /\ targetWorktree = "null" /\ selectedWorktrees = <<>>
    /\ wtIdx = 0 /\ removedSuccessfully = FALSE /\ processed = <<>>

NextRemoval ==
    \/ RmRevParse
    \/ RmResolve
    \/ RmGuards
    \/ RmConfirm
    \/ RmRemove
    \/ RmConfirm2
    \/ RmForce
    \/ RmRmDir
    \/ PgRevParse
    \/ PgList
    \/ PgSelect
    \/ PgConfirm
    \/ PgIter
    \/ PgLockConfirm
    \/ PgRemove
    \/ PgConfirm2
    \/ PgForce
    \/ PgRmDir
    \/ ProcessEnd

SpecRemoval == InitRemoval /\ [][NextRemoval]_vars

(***************************************************************************)
(* mergeWorktreeHandler (commands/merge.ts)                                *)
(***************************************************************************)
\* What the merge command never touches.
mergeFrame == <<atomicVars, rbVars, repoVars, stashVars, shVars, apPc, driverVars,
                rbHist, shHist, stashHash, unregisterShutdown, directoryExists,
                branchExists, applyStarted, applyDone, stepFailed, addedByCmd,
                sigInCreate, dirtyAction, opt, purgeLocals, fnVars>>

\* isWorktreeClean(targetPath): git -C <path> status --porcelain printed
\* nothing; false when git status itself fails.
isWorktreeCleanAt(id, fail) == IF fail THEN FALSE ELSE ~worktrees[id].modified

\* git rev-parse --is-inside-work-tree
MgRevParse ==
    /\ Alive /\ pc = "mRevParse"
    /\ \E ok \in BOOLEAN :
         IF ok THEN pc' = "mCurrent" /\ UNCHANGED procVars
               ELSE Exit(ExitFailure) /\ pc' = pc
    /\ UNCHANGED <<mergeFrame, checkLocals, issued, worktrees, targetWorktree>>

\* git branch --show-current: a failure is thrown to the outer catch, an
\* empty answer (detached HEAD) exits with status 1.
MgCurrentBranch ==
    /\ Alive /\ pc = "mCurrent"
    /\ \E out \in {"branch", "empty", "fail"} :
         IF out = "branch" THEN pc' = "mFind" /\ UNCHANGED procVars
                           ELSE Exit(ExitFailure) /\ pc' = pc
    /\ UNCHANGED <<mergeFrame, checkLocals, issued, worktrees, targetWorktree>>

\* git worktree list --porcelain and the scan for the requested branch:
\* the main worktree is listed like any other.
MgFind ==
    /\ Alive /\ pc = "mFind"
    /\ \E ok \in BOOLEAN :
         IF ok /\ opt.branch \in Listed
         THEN /\ targetWorktree' = opt.branch
              /\ pc' = "mClean"
              /\ UNCHANGED procVars
         ELSE /\ Exit(ExitFailure)
              /\ UNCHANGED <<pc, targetWorktree>>
    /\ UNCHANGED <<mergeFrame, checkLocals, issued, worktrees>>

NeverRefusesDirty(clean) == FALSE
\* if (!isClean && !options.autoCommit)
DirtyRefused(clean) == ~clean /\ ~opt.autoCommit

\* Step 1: isWorktreeClean(targetPath) and the refusal of a dirty worktree.
MgClean ==
    /\ Alive /\ pc = "mClean"
    /\ \E fail \in BOOLEAN :
         LET clean == isWorktreeCleanAt(targetWorktree, fail) IN
         /\ isClean' = YesNo(clean)
         /\ IF DirtyRefused(clean)
            THEN Exit(ExitFailure) /\ pc' = pc
            ELSE /\ pc' = IF opt.autoCommit /\ ~clean THEN "mAutoCommit" ELSE "mMerge"
                 /\ UNCHANGED procVars
    /\ UNCHANGED <<mergeFrame, isBare, issued, worktrees, targetWorktree>>

\* Step 2: git add . and git commit in the target worktree; a failure of
\* either is caught and the merge goes on.
MgAutoCommit ==
    /\ Alive /\ pc = "mAutoCommit"
    /\ \E added \in BOOLEAN, done \in BOOLEAN :
         /\ issued' = issued \cup {<<"add", targetWorktree>>}
                             \cup (IF added THEN {<<"commit", targetWorktree>>} ELSE {})
         /\ worktrees' = IF added /\ done
                         THEN [worktrees EXCEPT ![targetWorktree].modified = FALSE]
                         ELSE worktrees
    /\ pc' = "mMerge"
    /\ UNCHANGED <<mergeFrame, checkLocals, procVars, targetWorktree>>

IgnoresMergeFailure(ok) == TRUE
\* await execa("git", ["merge", branchName]) resolved (a rejection is thrown)
MergeSucceeded(ok) == ok

\* Step 3: git merge <branch>; a failure is thrown to the outer catch.
MgMerge ==
    /\ Alive /\ pc = "mMerge"
    /\ \E ok \in BOOLEAN :
         /\ IssueFor(IF ok THEN "merge" ELSE "mergeFailed", targetWorktree)
         /\ IF MergeSucceeded(ok)
            THEN /\ pc' = IF opt.remove THEN "mIsBare" ELSE "end"
                 /\ UNCHANGED procVars
            ELSE Exit(ExitFailure) /\ pc' = pc
    /\ UNCHANGED <<mergeFrame, checkLocals, worktrees, targetWorktree>>

\* Step 4, with --remove: isMainRepoBare() and the exit on a bare repository.
MgIsBare ==
    /\ Alive /\ pc = "mIsBare"
    /\ \E fail \in BOOLEAN :
         /\ isBare' = YesNo(isMainRepoBare(fail))
         /\ IF isMainRepoBare(fail)
            THEN Exit(ExitFailure) /\ pc' = pc
            ELSE pc' = "mRemove" /\ UNCHANGED procVars
    /\ UNCHANGED <<mergeFrame, isClean, issued, worktrees, targetWorktree>>

\* git worktree remove [--force] targetPath; a failure is thrown to the
\* outer catch.
MgRemove ==
    /\ Alive /\ pc = "mRemove"
    /\ IssueFor(IF opt.force THEN "removeForce" ELSE "remove", targetWorktree)
    /\ \E ok \in BOOLEAN :
         IF GitRemoveOk(targetWorktree, opt.force, ok)
         THEN /\ GitRemoved(targetWorktree)
              /\ pc' = "mRmDir"
              /\ UNCHANGED procVars
         ELSE /\ UNCHANGED worktrees
              /\ Exit(ExitFailure) /\ pc' = pc
    /\ UNCHANGED <<mergeFrame, checkLocals, targetWorktree>>

\* stat and rm of the directory inside a try whose catch is empty.
MgRmDir ==
    /\ Alive /\ pc = "mRmDir"
    /\ RmDirectory(targetWorktree)
    /\ pc' = "end"
    /\ UNCHANGED <<mergeFrame, checkLocals, procVars, targetWorktree>>

InitMerge ==
    /\ IdleTracker /\ IdleDriver /\ IdleProcess /\ IdleShutdown /\ IdleUtils
    /\ wtEntry = FALSE /\ dirExists = FALSE
    /\ localBranch = FALSE /\ remoteBranch = FALSE
    /\ mainDirty = FALSE /\ stashPresent = FALSE
    /\ stashHash = "null" /\ unregisterShutdown = "null"
    /\ directoryExists = FALSE /\ branchExists = FALSE
    /\ isBare = "unset" /\ isClean = "unset"
    /\ apPc = [w \in {"main", "handler"} |-> "idle"]
    /\ applyStarted = 0 /\ applyDone = 0 /\ stepFailed = FALSE /\ addedByCmd = FALSE
    /\ sigInCreate = FALSE /\ issued = {} /\ dirtyAction = "none"
    /\ pc = "mRevParse"
    /\ opt \in [force : BOOLEAN, autoCommit : BOOLEAN, remove : BOOLEAN,
                tty : BOOLEAN, bare : BOOLEAN, branch : WtIds]
    /\ worktrees \in [WtIds -> [isMain : BOOLEAN, locked : BOOLEAN, modified : BOOLEAN,
                                entry : BOOLEAN, dir : BOOLEAN]]
    /\ worktrees["main"].isMain /\ ~worktrees["main"].locked
    /\ worktrees["main"].entry /\ worktrees["main"].dir
    /\ worktrees["w2"] = [isMain |-> FALSE, locked |-> FALSE, modified |-> FALSE,
                          entry |-> FALSE, dir |-> FALSE]
    /\ ~worktrees["w1"].isMain
    /\ worktrees["w1"].dir = worktrees["w1"].entry
    /\ ~worktrees["w1"].entry => (~worktrees["w1"].locked /\ ~worktrees["w1"].modified)
    /\ targetWorktree = "null" /\ selectedWorktrees = <<>>
    /\ wtIdx = 0 /\ removedSuccessfully = FALSE /\ processed = <<>>

NextMerge ==
    \/ MgRevParse
    \/ MgCurrentBranch
    \/ MgFind
    \/ MgClean
    \/ MgAutoCommit
    \/ MgMerge
    \/ MgIsBare
    \/ MgRemove
    \/ MgRmDir
    \/ ProcessEnd

SpecMerge == InitMerge /\ [][NextMerge]_vars

(***************************************************************************)
(* openWorktreeHandler (commands/open.js)                                  *)
(***************************************************************************)
\* What the open command never touches.
openFrame == <<mergeFrame, checkLocals, worktrees>>

\* git rev-parse --is-inside-work-tree
OpRevParse ==
    /\ Alive /\ pc = "oRevParse"
    /\ \E ok \in BOOLEAN :
         IF ok THEN pc' = "oResolve" /\ UNCHANGED procVars
               ELSE Exit(ExitFailure) /\ pc' = pc
    /\ UNCHANGED <<openFrame, issued, targetWorktree>>

\* The target: interactive selection without an argument (nothing selected
\* exits with status 0); otherwise a registered worktree found by path or by
\* branch, or an unregistered directory that holds a .git entry; a directory
\* without one, or nothing found, exits with status 1.
OpResolve ==
    /\ Alive /\ pc = "oResolve"
    /\ \E t \in (IF opt.arg THEN {id \in WtIds : worktrees[id].entry \/ worktrees[id].dir}
                            ELSE Selectable(FALSE)) \cup {"null"} :
       \E hasDotGit \in BOOLEAN :
         IF t = "null" \/ (~worktrees[t].entry /\ ~hasDotGit)
         THEN /\ Exit(IF opt.arg THEN ExitFailure ELSE ExitCancelled)
              /\ UNCHANGED <<pc, targetWorktree>>
         ELSE /\ targetWorktree' = t
              /\ pc' = "oStat"
              /\ UNCHANGED procVars
    /\ UNCHANGED <<openFrame, issued>>

\* stat(targetPath): a path that no longer exists exits with status 1.
OpStat ==
    /\ Alive /\ pc = "oStat"
    /\ IF worktrees[targetWorktree].dir
       THEN pc' = "oEditor" /\ UNCHANGED procVars
       ELSE Exit(ExitFailure) /\ pc' = pc
    /\ UNCHANGED <<openFrame, issued, targetWorktree>>

\* The editor: skipped when it is 'none'; otherwise launched, and a launch
\* that fails is reported and followed by process.exit(1).
OpEditor ==
    /\ Alive /\ pc = "oEditor"
    /\ IF ~opt.editor
       THEN pc' = "end" /\ UNCHANGED <<procVars, issued>>
       ELSE \E ok \in BOOLEAN :
              /\ IssueFor(IF ok THEN "editor" ELSE "editorFailed", targetWorktree)
              /\ IF ok THEN pc' = "end" /\ UNCHANGED procVars
                       ELSE Exit(ExitFailure) /\ pc' = pc
    /\ UNCHANGED <<openFrame, targetWorktree>>

InitOpen ==
    /\ IdleTracker /\ IdleDriver /\ IdleProcess /\ IdleShutdown /\ IdleUtils
    /\ wtEntry = FALSE /\ dirExists = FALSE
    /\ localBranch = FALSE /\ remoteBranch = FALSE
    /\ mainDirty = FALSE /\ stashPresent = FALSE
    /\ stashHash = "null" /\ unregisterShutdown = "null"
    /\ directoryExists = FALSE /\ branchExists = FALSE
    /\ isBare = "unset" /\ isClean = "unset"
    /\ apPc = [w \in {"main", "handler"} |-> "idle"]
    /\ applyStarted = 0 /\ applyDone = 0 /\ stepFailed = FALSE /\ addedByCmd = FALSE
    /\ sigInCreate = FALSE /\ issued = {} /\ dirtyAction = "none"
    /\ pc = "oRevParse"
    /\ opt \in [arg : BOOLEAN, editor : BOOLEAN]
    /\ worktrees \in [WtIds -> [isMain : BOOLEAN, locked : BOOLEAN, modified : BOOLEAN,
                                entry : BOOLEAN, dir : BOOLEAN]]
    /\ worktrees["main"] = [isMain |-> TRUE, locked |-> FALSE, modified |-> FALSE,
                            entry |-> TRUE, dir |-> TRUE]
    /\ \A id \in WtIds \ {"main"} :
         /\ ~worktrees[id].isMain
         /\ ~worktrees[id].entry => (~worktrees[id].locked /\ ~worktrees[id].modified)
    /\ targetWorktree = "null" /\ selectedWorktrees = <<>>
    /\ wtIdx = 0 /\ removedSuccessfully = FALSE /\ processed = <<>>

NextOpen ==
    \/ OpRevParse
    \/ OpResolve
    \/ OpStat
    \/ OpEditor
    \/ ProcessEnd

SpecOpen == InitOpen /\ [][NextOpen]_vars

(***************************************************************************)
(* The naming utilities: resolveWorktreeName, resolveWorktreePath and      *)
(* validateBranchName.  A string is the sequence of its characters.        *)
(***************************************************************************)
\* What a call of a naming utility never touches.
utilsFrame == <<atomicVars, rbVars, repoVars, stashVars, procVars, shVars, cmdVars,
                apPc, driverVars, rbHist, shHist, cmdHist, rmVars>>

\* Bounds of the inputs.
MaxBranchLen == 3
MaxLockLen == 6
MaxNameLen == 3

Strings(alphabet, n) == UNION {[1..k -> alphabet] : k \in 0..n}

\* The characters \s of a regular expression, which are those trim() strips.
Whitespace == {" ", "\t"}

\* String.prototype.trim
RECURSIVE trim(_)
trim(s) ==
    IF s = <<>> THEN s
    ELSE IF Head(s) \in Whitespace THEN trim(Tail(s))
    ELSE IF s[Len(s)] \in Whitespace THEN trim(SubSeq(s, 1, Len(s) - 1))
    ELSE s

\* String.prototype.includes
includes(s, sub) ==
    \E i \in 1..(Len(s) + 1 - Len(sub)) : SubSeq(s, i, i + Len(sub) - 1) = sub

NeverEndsWith(s, suffix) == FALSE
\* String.prototype.endsWith
endsWith(s, suffix) ==
    /\ Len(suffix) <= Len(s)
    /\ SubSeq(s, Len(s) - Len(suffix) + 1, Len(s)) = suffix

\* const invalidChars = /[\s~^:?*\[\]\\]/
invalidChars == Whitespace \cup {"~", "^", ":", "?", "*", "[", "]", "\\"}

\* RegExp.prototype.test for a character class
test(class, s) == \E i \in 1..Len(s) : s[i] \in class

\* validateBranchName(branchName): the checks in the order of the code; a
\* valid answer has no error property.
validateBranchName(branchName) ==
    IF branchName = <<>> \/ trim(branchName) = <<>>
    THEN [isValid |-> FALSE, error |-> "Branch name cannot be empty"]
    ELSE IF test(invalidChars, branchName)
    THEN [isValid |-> FALSE, error |-> "Branch name contains invalid characters"]
    ELSE IF includes(branchName, <<".", ".">>)
    THEN [isValid |-> FALSE, error |-> "Branch name cannot contain \"..\""]
    ELSE IF endsWith(branchName, <<".", "l", "o", "c", "k">>)
    THEN [isValid |-> FALSE, error |-> "Branch name cannot end with \".lock\""]
    ELSE [isValid |-> TRUE, error |-> "undefined"]

\* resolveWorktreeName(branchName): branchName.replace(/\//g, '-')
resolveWorktreeName(branchName) ==
    [i \in 1..Len(branchName) |-> IF branchName[i] = "/" THEN "-" ELSE branchName[i]]

\* An optional value: undefined, or the value.
None == <<>>
Some(v) == <<v>>
\* A string in a condition: undefined and '' are falsy.
Truthy(o) == o # None /\ o[1] # <<>>

\* The segments of a path string: what lies between its slashes.
RECURSIVE Split(_, _)
Split(s, cur) ==
    IF s = <<>> THEN (IF cur = <<>> THEN <<>> ELSE <<cur>>)
    ELSE IF Head(s) = "/"
         THEN (IF cur = <<>> THEN <<>> ELSE <<cur>>) \o Split(Tail(s), <<>>)
         ELSE Split(Tail(s), Append(cur, Head(s)))

\* path.normalize on the segments of an absolute path: '.' is dropped and
\* '..' removes the segment before it (at the root it is dropped).
RECURSIVE NormSegs(_, _)
NormSegs(segs, done) ==
    IF segs = <<>> THEN done
    ELSE IF Head(segs) = <<".">> THEN NormSegs(Tail(segs), done)
    ELSE IF Head(segs) = <<".", ".">>
         THEN NormSegs(Tail(segs),
                       IF done = <<>> THEN done ELSE SubSeq(done, 1, Len(done) - 1))
    ELSE NormSegs(Tail(segs), Append(done, Head(segs)))

\* The absolute path string with the given segments.
RECURSIVE Render(_)
Render(segs) ==
    IF segs = <<>> THEN <<"/">>
    ELSE IF Len(segs) = 1 THEN <<"/">> \o segs[1]
    ELSE <<"/">> \o Head(segs) \o Render(Tail(segs))

isAbsolute(p) == p # <<>> /\ p[1] = "/"

\* path.resolve(p): p itself when absolute, otherwise p under the process's
\* working directory; normalised.
resolve(processCwd, p) ==
    Render(NormSegs(Split(IF isAbsolute(p) THEN p ELSE processCwd \o <<"/">> \o p,
                          <<>>), <<>>))

\* path.join(...parts) for a first part that is an absolute path: the parts
\* joined with '/', normalised.
RECURSIVE JoinRaw(_)
JoinRaw(parts) ==
    IF parts = <<>> THEN <<>>
    ELSE IF Len(parts) = 1 THEN parts[1]
    ELSE Head(parts) \o <<"/">> \o JoinRaw(Tail(parts))
join(parts) == Render(NormSegs(Split(JoinRaw(parts), <<>>), <<>>))

\* path.dirname and path.basename of an absolute path.
dirname(p) ==
    LET segs == Split(p, <<>>) IN
    IF segs = <<>> THEN <<"/">> ELSE Render(SubSeq(segs, 1, Len(segs) - 1))
basename(p) ==
    LET segs == Split(p, <<>>) IN
    IF segs = <<>> THEN <<>> ELSE segs[Len(segs)]

IgnoresCustomPath(o) == FALSE
\* if (customPath)
HasCustomPath(o) == Truthy(o)

\* resolveWorktreePath(branchName, options) in an environment env (the
\* process's working directory, the configuration, the repository's name);
\* the answer is the path, with whether getRepoName was called.
resolveWorktreePath(branchName, options, env) ==
    LET customPath == options.customPath
        cwd == IF options.cwd = None THEN env.processCwd ELSE options.cwd[1]
        useRepoNamespace == options.useRepoNamespace # "false"
        worktreeName == resolveWorktreeName(branchName)
        defaultWorktreePath == env.defaultWorktreePath
        useSubfolder == env.worktreeSubfolder
        parentDir == dirname(cwd)
        currentDirName == basename(cwd)
    IN IF HasCustomPath(customPath)
       THEN [path |-> resolve(env.processCwd, customPath[1]), repoNameQueried |-> FALSE]
       ELSE IF Truthy(defaultWorktreePath)
       THEN IF useRepoNamespace
            THEN [path |-> join(<<defaultWorktreePath[1], env.repoName, worktreeName>>),
                  repoNameQueried |-> TRUE]
            ELSE [path |-> join(<<defaultWorktreePath[1], worktreeName>>),
                  repoNameQueried |-> FALSE]
       ELSE IF useSubfolder
       THEN [path |-> join(<<parentDir,
                            currentDirName \o <<"-", "w", "o", "r", "k", "t", "r", "e",
                                                 "e", "s">>,
                            worktreeName>>),
             repoNameQueried |-> FALSE]
       ELSE [path |-> join(<<parentDir, currentDirName \o <<"-">> \o worktreeName>>),
             repoNameQueried |-> FALSE]

\* ---- the calls ----
Alphabet == {"a", "/", "-", ".", " ", "\t", "~", "^", ":", "?", "*", "[", "]", "\\"}
LockAlphabet == {".", "l", "o", "c", "k"}
NameAlphabet == {"a", "/", "-"}

BranchNames ==
    Strings(Alphabet, MaxBranchLen)
        \cup (Strings(LockAlphabet, MaxLockLen) \ Strings(LockAlphabet, 4))

ValidateCalls ==
    {[fn |-> "validateBranchName", args |-> <<s>>] : s \in BranchNames}

\* Two branch names, named one after the other.
NameCalls ==
    {[fn |-> "resolveWorktreeName", args |-> <<a, b>>] :
        a \in Strings(NameAlphabet, MaxNameLen), b \in Strings(NameAlphabet, MaxNameLen)}

ResolveOptions ==
    [customPath : {None, Some(<<>>), Some(<<"/", "t">>), Some(<<"t", "/", "u">>),
                   Some(<<".", ".", "/", "t">>)},
     cwd : {None, Some(<<"/">>), Some(<<"/", "h", "/", "p">>)},
     useRepoNamespace : {"undefined", "true", "false"}]
ResolveEnvs ==
    [processCwd : {<<"/">>, <<"/", "w", "/", "r">>},
     defaultWorktreePath : {None, Some(<<"/", "g">>)},
     worktreeSubfolder : BOOLEAN,
     repoName : {<<"r">>}]
ResolveCalls ==
    {[fn |-> "resolveWorktreePath", args |-> <<[branchName |-> b, options |-> o]>>,
      env |-> e] :
        b \in {<<"a">>, <<"a", "/", "b">>, <<".">>}, o \in ResolveOptions, e \in ResolveEnvs}

\* The arguments of the next call to make.
NextArg == fnCall.args[Len(fnResult) + 1]

ValidateCall ==
    /\ fnCall.fn = "validateBranchName" /\ Len(fnResult) < Len(fnCall.args)
    /\ fnResult' = Append(fnResult, validateBranchName(NextArg))
    /\ UNCHANGED <<fnCall, utilsFrame, shouldRun, cmdIdx>>

NameCall ==
    /\ fnCall.fn = "resolveWorktreeName" /\ Len(fnResult) < Len(fnCall.args)
    /\ fnResult' = Append(fnResult, resolveWorktreeName(NextArg))
    /\ UNCHANGED <<fnCall, utilsFrame, shouldRun, cmdIdx>>

ResolveCall ==
    /\ fnCall.fn = "resolveWorktreePath" /\ Len(fnResult) < Len(fnCall.args)
    /\ fnResult' = Append(fnResult,
                          resolveWorktreePath(NextArg.branchName, NextArg.options,
                                              fnCall.env))
    /\ UNCHANGED <<fnCall, utilsFrame, shouldRun, cmdIdx>>

InitUtils ==
    /\ IdleTracker /\ IdleDriver /\ IdleProcess /\ IdleShutdown /\ IdleCommand
    /\ IdleRemoval
    /\ wtEntry = FALSE /\ dirExists = FALSE
    /\ localBranch = FALSE /\ remoteBranch = FALSE
    /\ fnCall \in ValidateCalls \cup NameCalls \cup ResolveCalls
    /\ fnResult = <<>> /\ IdleSetup

NextUtils ==
    \/ ValidateCall
    \/ NameCall
    \/ ResolveCall

SpecUtils == InitUtils /\ [][NextUtils]_vars

(***************************************************************************)
(* runSetupScriptsSecure (utils/setup.js)                                  *)
(***************************************************************************)
MaxCommands == 3

\* What runSetupScriptsSecure never touches.
setupFrame == <<atomicVars, rbVars, repoVars, stashVars, procVars, shVars, apPc,
                driverVars, rbHist, shHist, opt, stashHash, unregisterShutdown,
                directoryExists, branchExists, checkLocals, applyStarted, applyDone,
                stepFailed, addedByCmd, sigInCreate, dirtyAction, rmVars, fnCall>>

\* The commands of a setup file: the first n of a fixed list.
SetupCommands(n) == [i \in 1..n |-> i]

\* confirmCommands(commands, {trust}): with trust the prompt is bypassed,
\* otherwise the answer is the user's.
confirmCommands(trust, answer) == IF trust THEN TRUE ELSE answer

\* const repoRoot = await getRepoRoot(); if (!repoRoot) return false
SetupRepoRoot ==
    /\ pc = "sRepoRoot"
    /\ IF fnCall.env.repoRoot
       THEN pc' = "sLoad" /\ fnResult' = fnResult
       ELSE pc' = "returned" /\ fnResult' = <<FALSE>>
    /\ UNCHANGED <<setupFrame, issued, shouldRun, cmdIdx>>

\* loadSetupCommands(repoRoot): null without a setup file holding at least
\* one command; if (!setupResult) return false
SetupLoad ==
    /\ pc = "sLoad"
    /\ IF Len(fnCall.env.commands) > 0
       THEN pc' = "sConfirm" /\ fnResult' = fnResult
       ELSE pc' = "returned" /\ fnResult' = <<FALSE>>
    /\ UNCHANGED <<setupFrame, issued, shouldRun, cmdIdx>>

NeverDeclined(run) == FALSE
\* if (!shouldRun)
Declined(run) == ~run

\* const shouldRun = await confirmCommands(...); declined, return false.
SetupConfirm ==
    /\ pc = "sConfirm"
    /\ \E answer \in BOOLEAN :
         LET run == confirmCommands(fnCall.args[1].trust, answer) IN
         /\ shouldRun' = YesNo(run)
         /\ issued' = IF fnCall.args[1].trust THEN issued
                      ELSE issued \cup {<<"confirmCommands", 0>>}
         /\ IF Declined(run)
            THEN pc' = "returned" /\ fnResult' = <<FALSE>> /\ cmdIdx' = cmdIdx
            ELSE pc' = "sExec" /\ fnResult' = fnResult /\ cmdIdx' = 1
    /\ UNCHANGED setupFrame

\* One iteration of for (const command of setupResult.commands): the
\* command is executed and a failure is only reported; after the last one,
\* return true.
SetupExec ==
    /\ pc = "sExec"
    /\ IF cmdIdx > Len(fnCall.env.commands)
       THEN /\ pc' = "returned" /\ fnResult' = <<TRUE>>
            /\ UNCHANGED <<issued, cmdIdx>>
       ELSE /\ \E ok \in BOOLEAN :
                 issued' = issued \cup {<<IF ok THEN "exec" ELSE "execFailed",
                                          fnCall.env.commands[cmdIdx]>>}
            /\ cmdIdx' = cmdIdx + 1
            /\ UNCHANGED <<pc, fnResult>>
    /\ UNCHANGED <<setupFrame, shouldRun>>

SetupCalls ==
    {[fn |-> "runSetupScriptsSecure", args |-> <<[trust |-> t]>>,
      env |-> [repoRoot |-> r, commands |-> SetupCommands(n)]] :
        t \in BOOLEAN, r \in BOOLEAN, n \in 0..MaxCommands}

InitSetup ==
    /\ IdleTracker /\ IdleDriver /\ IdleProcess /\ IdleShutdown /\ IdleRemoval
    /\ wtEntry = FALSE /\ dirExists = FALSE
    /\ localBranch = FALSE /\ remoteBranch = FALSE
    /\ mainDirty = FALSE /\ stashPresent = FALSE
    /\ opt = [branchOk |-> TRUE, install |-> FALSE, editor |-> FALSE, bare |-> FALSE]
    /\ stashHash = "null" /\ unregisterShutdown = "null"
    /\ directoryExists = FALSE /\ branchExists = FALSE
    /\ isBare = "unset" /\ isClean = "unset"
    /\ apPc = [w \in {"main", "handler"} |-> "idle"]
    /\ applyStarted = 0 /\ applyDone = 0 /\ stepFailed = FALSE /\ addedByCmd = FALSE
    /\ sigInCreate = FALSE /\ issued = {} /\ dirtyAction = "none"
    /\ pc = "sRepoRoot"
    /\ fnCall \in SetupCalls
    /\ fnResult = <<>> /\ IdleSetup

NextSetup ==
    \/ SetupRepoRoot
    \/ SetupLoad
    \/ SetupConfirm
    \/ SetupExec

SpecSetup == InitSetup /\ [][NextSetup]_vars

(***************************************************************************)
(* Claims about the atomic operation tracker (checked under SpecAtomic).   *)
(***************************************************************************)
RollbackCalled == lastCall = "rollback"

\* C1: after N successful registrations on a tracker that was not committed,
\* rollback() invokes the N registered actions in exact reverse order of
\* registration, and starts an action only when the one before it has
\* settled (at most one invoked action is unsettled at any time).
C1_RollbackReverseOrder ==
    RollbackCalled =>
        /\ IsPrefix(invoked, Reverse(rbSnapshot))
        /\ finishedCnt <= Len(invoked)
        /\ Len(invoked) <= finishedCnt + 1
        /\ (rbPc = "top" => finishedCnt = Len(invoked))
        /\ (rbPc = "returned" /\ ~commitCalled => invoked = Reverse(rbSnapshot))

\* A rollback of three registered actions has run to its end.
C1_Witness ==
    /\ RollbackCalled /\ rbPc = "returned" /\ ~commitCalled
    /\ Len(rbSnapshot) >= 3
    /\ invoked = Reverse(rbSnapshot)

\* C2: once commit() has been called, no later step invokes a rollback
\* action, whatever was registered before or after the commit.
C2_NoRollbackAfterCommit ==
    [][commitCalled => invokedTotal' = invokedTotal]_vars

\* rollback() was called after commit() with an action registered after the
\* commit, and returned without invoking it.
C2_Witness ==
    /\ commitCalled /\ RollbackCalled /\ rbPc = "returned"
    /\ Len(rollbackActions) > 0
    /\ invoked = <<>>

\* C3: when a rollback action throws, rollback() does not throw, and once it
\* has returned every registered action was invoked, in reverse order of
\* registration.
C3_ThrowingActionSwallowed ==
    (RollbackCalled /\ threwIds # {}) =>
        /\ rbPc # "threw"
        /\ IsPrefix(invoked, Reverse(rbSnapshot))
        /\ (rbPc = "returned" => Len(invoked) = Len(rbSnapshot))

\* The first action invoked threw and the remaining ones were still invoked.
C3_Witness ==
    /\ RollbackCalled /\ rbPc = "returned"
    /\ Len(invoked) >= 2
    /\ invoked[1] \in threwIds
    /\ Len(invoked) = Len(rbSnapshot)

\* C5 (as claimed): when the rollback of a worktree creation that created a
\* new local branch (createWorktree with createBranch, or
\* createWorktreeFromRemote) has returned with every sub-step successful, the
\* branch no longer exists.
C5_BranchDeletedByRollback ==
    ( /\ RollbackCalled /\ rbPc = "returned"
      /\ wtRb.done /\ wtRb.failed = {}
      /\ (wtRb.createBranch \/ wtRb.kind = "createWorktreeFromRemote") )
    => ~localBranch

\* C6: the sub-steps of a worktree rollback closure are attempted one after
\* the other whatever the outcome of the earlier ones: when the closure has
\* settled every sub-step it contains was attempted, and it did not throw.
C6_SubStepsIndependent ==
    /\ ("dir" \in wtRb.attempted => "remove" \in wtRb.attempted)
    /\ ("branch" \in wtRb.attempted => "dir" \in wtRb.attempted)
    /\ (wtRb.done => wtRb.attempted = SubSteps(wtRb.kind) /\ ~wtRb.threw)

\* The forced removal and the directory deletion both failed and the branch
\* deletion was still attempted.
C6_Witness ==
    /\ wtRb.done
    /\ wtRb.kind = "createWorktreeFromRemote"
    /\ {"remove", "dir"} \subseteq wtRb.failed
    /\ "branch" \in wtRb.attempted

(***************************************************************************)
(* Claims about the interrupt handler (checked under SpecShutdown).        *)
(***************************************************************************)
RECURSIVE IsSubSeq(_, _)
\* s can be obtained from t by deleting elements.
IsSubSeq(s, t) ==
    IF s = <<>> THEN TRUE
    ELSE IF t = <<>> THEN FALSE
    ELSE IF Head(s) = Head(t) THEN IsSubSeq(Tail(s), Tail(t))
    ELSE IsSubSeq(s, Tail(t))

Range(s) == {s[i] : i \in 1..Len(s)}

\* C10 (as claimed, read in the code's favour for callbacks unregistered
\* while cleanup runs): when the process has ended after exactly one
\* termination signal handled by the ShutdownManager, it ended with status
\* 130, the callbacks it invoked were invoked in reverse order of their
\* registration at the time of the signal, none twice, and every callback
\* registered then and still registered at the end was invoked.
C10_FirstSignalRunsAllCleanup ==
    (signals = 1 /\ exitKind = "exit") =>
        /\ exitCode = ExitInterrupted
        /\ IsSubSeq(shInvoked, Reverse(shSnapshot))
        /\ \A h \in Range(handlers) \cap Range(shSnapshot) : h \in Range(shInvoked)

(***************************************************************************)
(* Claims about the create command (checked under SpecNew).                *)
(***************************************************************************)
Ended == exitKind # "running"

\* C4 (as claimed): when the process has ended after a step of the atomic
\* create failed (git worktree add, or the install command), there is no
\* worktree entry and no directory at the target path.
C4_NoHalfCreatedWorktree ==
    (Ended /\ stepFailed) => (~wtEntry /\ ~dirExists)

\* C7 (as claimed): when the process has ended after a stash reference was
\* obtained, whatever the exit path, the stash was restored by exactly one
\* call of applyAndDropStash.
C7_StashRestoredOnEveryExit ==
    (Ended /\ stashHash # "null") => applyStarted = 1

\* C8 (as claimed): applyAndDropStash is started at most once for the stash
\* of a run, under every interleaving of a signal with the main flow.
C8_StashAppliedAtMostOnce ==
    applyStarted <= 1

\* C9 (as claimed): when the process has ended after a termination signal
\* arrived between a successful git worktree add and commit(), the tracker's
\* rollback has run and the new worktree is not left behind.
C9_SignalRollsBackCreation ==
    (Ended /\ sigInCreate) => (invokedTotal > 0 /\ ~(wtEntry /\ dirExists))


\* C11: a termination signal that arrives while the cleanup of an earlier
\* signal is in progress ends the process at once with status 1: no further
\* cleanup callback is invoked and none is waited for.
C11_SecondSignalForcesExit ==
    [][(manager # "null" /\ isShuttingDown /\ signals' = signals + 1) =>
          /\ exitKind' = "exit"
          /\ exitCode' = ExitFailure
          /\ shInvoked' = shInvoked
          /\ applyStarted' = applyStarted]_vars

\* A second signal ended the process while a callback was awaited and
\* callbacks below it were still to run.
C11_Witness ==
    /\ signals = 2
    /\ exitKind = "exit" /\ exitCode = ExitFailure
    /\ shPc = "await" /\ shIdx > 1
    /\ Len(shInvoked) < Len(shSnapshot)

(***************************************************************************)
(* Claims about the commands' early exits (SpecNew, SpecExtract).          *)
(***************************************************************************)
\* C12 (as claimed): when a command has ended on a branch name that
\* validateBranchName rejects, it ended by exiting with a non-zero status
\* and had issued no stash push, no git worktree add and no other mutation.
C12_RejectedNameMutatesNothing ==
    (exitKind = "exit" /\ ~opt.branchOk /\ pc \in {"validate", "xSelect"}) =>
        /\ exitCode # 0
        /\ issued = {}
        /\ applyStarted = 0

C14_AbortCancelsCleanly ==
    dirtyAction = "abort" =>
        /\ exitKind = "exit" /\ exitCode = ExitCancelled
        /\ issued = {}
        /\ applyStarted = 0 /\ nextId = 0

\* The user aborted on a dirty main worktree.
C14_Witness ==
    /\ dirtyAction = "abort" /\ mainDirty
    /\ exitKind = "exit" /\ exitCode = ExitCancelled

\* C15: in create a stash push is issued only after the repository was
\* found not bare, the main worktree was reported dirty and dirty-state
\* resolution returned 'stash'; and once the repository was found bare, the
\* tree reported clean, or 'continue' chosen, the run has moved on past that
\* point and issues no stash push and no stash apply.
C15_StashOnlyWhenChosen ==
    /\ "stashPush" \in issued =>
           (isBare = "no" /\ isClean = "no" /\ dirtyAction = "stash")
    /\ (isBare = "yes" \/ isClean = "yes" \/ dirtyAction = "continue") =>
           /\ "stashPush" \notin issued
           /\ applyStarted = 0 /\ stashHash = "null"
           /\ pc \notin {"isBare", "isClean", "prompt", "stash"}

\* The user chose 'continue' and the worktree was created with the changes
\* left in place.
C15_Witness ==
    /\ dirtyAction = "continue" /\ mainDirty
    /\ exitKind = "end" /\ "worktreeAdd" \in issued /\ committed

(***************************************************************************)
(* Claims about remove and purge (checked under SpecRemoval).              *)
(***************************************************************************)
RemovalKinds == {"remove", "removeForce", "rm"}

\* C16: no git worktree remove (plain or forced) and no directory deletion
\* is ever issued for the main worktree, which keeps its entry and its
\* directory; remove with a main target stops at the guard and exits with
\* status 1; purge never starts an iteration for a main entry.
C16_MainNeverRemoved ==
    /\ \A e \in issued : e[1] \in RemovalKinds => ~worktrees[e[2]].isMain
    /\ \A id \in WtIds : worktrees[id].isMain => (worktrees[id].entry /\ worktrees[id].dir)
    /\ (targetWorktree # "null" /\ worktrees[targetWorktree].isMain) =>
           /\ pc = "rGuards"
           /\ ~Alive => (exitKind = "exit" /\ exitCode = ExitFailure)
    /\ \A i \in 1..Len(processed) : ~worktrees[processed[i]].isMain

\* remove was pointed at the main worktree and refused.
C16_Witness ==
    /\ targetWorktree = "main"
    /\ exitKind = "exit" /\ exitCode = ExitFailure

\* C17: remove with a locked target and without force stops at the guard:
\* no confirmation, git worktree remove or directory deletion is issued, the
\* worktree is intact and the process exits with status 1.
C17_LockedNeedsForce ==
    (targetWorktree # "null" /\ worktrees[targetWorktree].locked /\ ~opt.force) =>
        /\ issued = {}
        /\ pc = "rGuards"
        /\ worktrees[targetWorktree].entry /\ worktrees[targetWorktree].dir
        /\ ~Alive => (exitKind = "exit" /\ exitCode = ExitFailure)

\* remove refused a locked, non-main worktree.
C17_Witness ==
    /\ targetWorktree # "null"
    /\ worktrees[targetWorktree].locked /\ ~worktrees[targetWorktree].isMain
    /\ ~opt.force
    /\ exitKind = "exit" /\ exitCode = ExitFailure

\* C18: in remove without force, a forced removal is issued only after the
\* plain one was issued and the second confirmation answered yes; when that
\* confirmation is declined the process exits with status 0 and the
\* worktree and its directory are intact; a removal that fails in any other
\* way exits with status 1 and no directory deletion is issued.
C18_ForceOnlyAfterSecondYes ==
    (targetWorktree # "null" /\ ~opt.force) =>
        LET t == targetWorktree IN
        /\ <<"removeForce", t>> \in issued =>
               (<<"remove", t>> \in issued /\ <<"confirm2:yes", t>> \in issued)
        /\ <<"confirm2:no", t>> \in issued =>
               /\ exitKind = "exit" /\ exitCode = ExitCancelled
               /\ worktrees[t].entry /\ worktrees[t].dir
               /\ issued \cap {<<"removeForce", t>>, <<"rm", t>>} = {}
        /\ (~Alive /\ pc \in {"rRemove", "rForce"}) =>
               /\ exitKind = "exit" /\ exitCode = ExitFailure
               /\ worktrees[t].dir
               /\ <<"rm", t>> \notin issued

\* The forced retry was declined on a worktree with modified files.
C18_Witness ==
    /\ targetWorktree # "null" /\ ~opt.force
    /\ <<"confirm2:no", targetWorktree>> \in issued
    /\ worktrees[targetWorktree].modified
    /\ exitKind = "exit"

\* C19 (as claimed): when remove has run past its removal step and ended
\* with status 0, the target has no worktree entry and no directory.
C19_SuccessMeansGone ==
    (targetWorktree # "null" /\ pc = "end" /\ exitKind = "end") =>
        /\ exitCode = 0
        /\ ~worktrees[targetWorktree].entry
        /\ ~worktrees[targetWorktree].dir

\* C20: once the batch of purge is confirmed the process is never ended by
\* an entry's failure: the iterations started follow the selection in order,
\* and when the process has ended it ended with status 0 after an iteration
\* was started for every selected worktree.
C20_PurgeProcessesEverySelected ==
    wtIdx >= 1 =>
        /\ exitKind \in {"running", "end"}
        /\ IsPrefix(processed, selectedWorktrees)
        /\ ~Alive => (exitCode = 0 /\ processed = selectedWorktrees)

\* The removal of the first of two selected worktrees failed and the second
\* was processed all the same.
C20_Witness ==
    /\ exitKind = "end" /\ Len(selectedWorktrees) = 2
    /\ processed = selectedWorktrees
    /\ <<"remove", selectedWorktrees[1]>> \in issued
    /\ worktrees[selectedWorktrees[1]].entry
    /\ ~worktrees[selectedWorktrees[2]].entry

\* C21 (as claimed): purge never issues a non-forced git worktree remove for
\* a locked worktree: a locked entry is skipped or removed with force.
C21_PurgeLockedNeverPlainRemove ==
    \A i \in 1..Len(processed) :
        worktrees[processed[i]].locked => <<"remove", processed[i]>> \notin issued

(***************************************************************************)
(* Claims about merge (checked under SpecMerge).                           *)
(***************************************************************************)
MergeMutations == {"add", "commit", "merge", "mergeFailed", "remove", "removeForce", "rm"}

\* C22: in merge, when the worktree of the requested branch has uncommitted
\* changes and auto-commit is off, or when no worktree exists for the
\* requested branch, no git add, git commit, git merge, worktree removal or
\* directory deletion is ever issued, and the process can only end by
\* exiting with status 1.
C22_DirtyOrMissingRefused ==
    LET dirty == /\ worktrees[opt.branch].entry /\ worktrees[opt.branch].modified
                 /\ ~opt.autoCommit
        missing == targetWorktree = "null" /\ ~worktrees[opt.branch].entry
    IN (dirty \/ missing) =>
           /\ \A e \in issued : e[1] \notin MergeMutations
           /\ worktrees[opt.branch].dir = worktrees[opt.branch].entry
           /\ ~Alive => (exitKind = "exit" /\ exitCode = ExitFailure)

\* merge found the worktree, saw it dirty without auto-commit and exited.
C22_Witness ==
    /\ targetWorktree # "null" /\ worktrees[targetWorktree].modified
    /\ ~opt.autoCommit /\ isClean = "no" /\ pc = "mClean"
    /\ exitKind = "exit" /\ exitCode = ExitFailure

\* C23 (as claimed): the removal done by merge --remove follows the remove
\* command: none is issued for the main worktree, none for a locked
\* worktree unless forced, none before a confirmation unless forced or
\* non-interactive, and a forced one without --force only after a second
\* confirmation.
C23_MergeRemovesLikeRemove ==
    \A e \in issued :
        e[1] \in {"remove", "removeForce"} =>
            /\ ~worktrees[e[2]].isMain
            /\ worktrees[e[2]].locked => opt.force
            /\ (~opt.force /\ opt.tty) => <<"confirm:yes", e[2]>> \in issued
            /\ (e[1] = "removeForce" /\ ~opt.force) => <<"confirm2:yes", e[2]>> \in issued

\* C24 (as claimed): with core.bare true and the remove option, merge ends
\* only by exiting non-zero, and no git commit, git merge or git worktree
\* remove has been issued.
C24_BareDetectedBeforeMutation ==
    (opt.bare /\ opt.remove) =>
        /\ \A e \in issued : e[1] \notin {"commit", "merge", "mergeFailed", "remove", "removeForce"}
        /\ ~Alive => (exitKind = "exit" /\ exitCode # 0)

\* C25 (as claimed): a failure to launch the editor is only logged: a
\* command whose editor failed to launch does not exit with a failure
\* status (checked on open under SpecOpen).
C25_EditorFailureOnlyLogged ==
    (\E e \in issued : e[1] = "editorFailed") =>
        ~(exitKind = "exit" /\ exitCode # 0)

\* C26 (as claimed): when the package-manager install fails during create
\* (the worktree had been added in this run), the worktree creation is not
\* rolled back: once the command has ended, without any signal, the worktree
\* entry and its directory still exist.
C26_InstallFailureKeepsWorktree ==
    (stepFailed /\ addedByCmd /\ "install" \in issued /\ signals = 0 /\ ~Alive) =>
        (wtEntry /\ dirExists)

\* C27: when new issues git worktree add, it passes -b <branch> exactly when
\* the branch exists neither locally nor on the tracked remote; without -b
\* the branch argument names a branch that already exists and no new branch
\* name comes into being; the rollback action registered for a successful
\* add records the same choice.
C27_NewBranchOnlyWhenAbsent ==
    [][("worktreeAdd" \notin issued /\ "worktreeAdd" \in issued') =>
          /\ ("-b" \in issued') <=> (~localBranch /\ ~remoteBranch)
          /\ "-b" \notin issued' =>
                 /\ localBranch \/ remoteBranch
                 /\ remoteBranch' = remoteBranch
                 /\ (localBranch' \/ remoteBranch') = (localBranch \/ remoteBranch)
          /\ addedByCmd' =>
                 rollbackActions'[1].createBranch = (~localBranch /\ ~remoteBranch)]_vars

\* new attached a worktree to a branch that existed (no -b was passed).
C27_Witness ==
    /\ "worktreeAdd" \in issued /\ "-b" \notin issued
    /\ addedByCmd /\ wtEntry /\ pc \in {"install", "commit"}

(***************************************************************************)
(* Claims about the naming utilities (checked under SpecUtils).            *)
(***************************************************************************)
\* C28: resolveWorktreePath answers by the first case that applies: the
\* resolved custom path when one is given (non-empty), whatever the rest;
\* else, with a global root configured, root/repoName/name when namespacing
\* is on and root/name when it is off; else, in subfolder mode,
\* parent/cwdName-worktrees/name; else parent/cwdName-name, with name =
\* resolveWorktreeName(branch) and parent, cwdName taken from the working
\* directory; the repository name is queried exactly in the namespaced
\* global-root case.
C28_PathPriorityChain ==
    (fnCall.fn = "resolveWorktreePath" /\ Len(fnResult) = 1) =>
        LET b == fnCall.args[1].branchName
            o == fnCall.args[1].options
            e == fnCall.env
            r == fnResult[1]
            name == resolveWorktreeName(b)
            custom == o.customPath # None /\ o.customPath[1] # <<>>
            root == e.defaultWorktreePath # None
            namespaced == o.useRepoNamespace \in {"undefined", "true"}
            cwd == IF o.cwd = None THEN e.processCwd ELSE o.cwd[1]
            parent == dirname(cwd)
            cwdName == basename(cwd)
        IN /\ custom => r.path = resolve(e.processCwd, o.customPath[1])
           /\ (~custom /\ root /\ namespaced) =>
                  r.path = join(<<e.defaultWorktreePath[1], e.repoName, name>>)
           /\ (~custom /\ root /\ ~namespaced) =>
                  r.path = join(<<e.defaultWorktreePath[1], name>>)
           /\ (~custom /\ ~root /\ e.worktreeSubfolder) =>
                  r.path = join(<<parent,
                                  cwdName \o <<"-", "w", "o", "r", "k", "t", "r", "e",
                                               "e", "s">>,
                                  name>>)
           /\ (~custom /\ ~root /\ ~e.worktreeSubfolder) =>
                  r.path = join(<<parent, cwdName \o <<"-">> \o name>>)
           /\ r.repoNameQueried = (~custom /\ root /\ namespaced)

\* A relative custom path was given together with a global root and
\* subfolder mode, and the answer is the custom path under the process's
\* working directory.
C28_Witness ==
    /\ fnCall.fn = "resolveWorktreePath" /\ Len(fnResult) = 1
    /\ fnCall.args[1].options.customPath = Some(<<"t", "/", "u">>)
    /\ fnCall.args[1].branchName = <<"a", "/", "b">>
    /\ fnCall.env.defaultWorktreePath # None /\ fnCall.env.worktreeSubfolder
    /\ fnCall.env.processCwd = <<"/", "w", "/", "r">>
    /\ fnResult[1].path = <<"/", "w", "/", "r", "/", "t", "/", "u">>
    /\ ~fnResult[1].repoNameQueried

\* C29 (as claimed): two different branch names that validateBranchName
\* accepts get different worktree names.
C29_NamesCollisionFree ==
    (fnCall.fn = "resolveWorktreeName" /\ Len(fnResult) = 2) =>
        ((/\ fnCall.args[1] # fnCall.args[2]
          /\ validateBranchName(fnCall.args[1]).isValid
          /\ validateBranchName(fnCall.args[2]).isValid)
            => fnResult[1] # fnResult[2])

\* C30: validateBranchName answers isValid = false exactly for the empty
\* string, a string of whitespace only, a string with a whitespace
\* character or one of ~ ^ : ? * [ ] \, a string with two dots in a row and
\* a string ending in .lock; the answer carries an error message exactly
\* when isValid is false.
C30_ValidateRejectsExactly ==
    (fnCall.fn = "validateBranchName" /\ Len(fnResult) = 1) =>
        LET s == fnCall.args[1]
            r == fnResult[1]
            n == Len(s)
            rejected ==
                \/ n = 0
                \/ \A i \in 1..n : s[i] \in {" ", "\t"}
                \/ \E i \in 1..n :
                     s[i] \in {" ", "\t", "~", "^", ":", "?", "*", "[", "]", "\\"}
                \/ \E i \in 1..(n - 1) : s[i] = "." /\ s[i + 1] = "."
                \/ /\ n >= 5
                   /\ s[n - 4] = "." /\ s[n - 3] = "l" /\ s[n - 2] = "o"
                   /\ s[n - 1] = "c" /\ s[n] = "k"
        IN /\ r.isValid = ~rejected
           /\ (r.error # "undefined") = ~r.isValid

\* A name with nothing wrong but its .lock ending was rejected.
C30_Witness ==
    /\ fnCall.fn = "validateBranchName" /\ Len(fnResult) = 1
    /\ fnCall.args[1] = <<"l", ".", "l", "o", "c", "k">>
    /\ ~fnResult[1].isValid
    /\ fnResult[1].error = "Branch name cannot end with \".lock\""

\* C33: in merge a worktree removal (plain or forced, or the deletion of the
\* directory) is issued only with the remove option and after git merge has
\* succeeded; when git merge fails the process exits with status 1 and the
\* worktree entry and its directory are untouched; without the remove
\* option the worktree is never removed.
C33_RemovalOnlyAfterMerge ==
    targetWorktree # "null" =>
        LET t == targetWorktree
            removal == {<<"remove", t>>, <<"removeForce", t>>, <<"rm", t>>}
        IN /\ issued \cap removal # {} =>
                  /\ opt.remove
                  /\ <<"merge", t>> \in issued /\ <<"mergeFailed", t>> \notin issued
           /\ <<"mergeFailed", t>> \in issued =>
                  /\ exitKind = "exit" /\ exitCode = ExitFailure
                  /\ worktrees[t].entry /\ worktrees[t].dir
                  /\ issued \cap removal = {}
           /\ ~opt.remove =>
                  /\ issued \cap removal = {}
                  /\ worktrees[t].entry /\ worktrees[t].dir

\* merge --remove failed at git merge and left the worktree alone.
C33_Witness ==
    /\ targetWorktree # "null" /\ opt.remove
    /\ <<"mergeFailed", targetWorktree>> \in issued
    /\ exitKind = "exit" /\ exitCode = ExitFailure
    /\ worktrees[targetWorktree].entry /\ worktrees[targetWorktree].dir

\* C39 (as claimed): in merge with auto-commit on a dirty target worktree,
\* git merge is issued only after the pending changes were committed: once
\* git merge has been issued after an auto-commit attempt, the worktree has
\* no uncommitted changes left.
C39_MergeOnlyAfterCommit ==
    \A id \in WtIds :
        (<<"add", id>> \in issued
            /\ issued \cap {<<"merge", id>>, <<"mergeFailed", id>>} # {})
          => ~worktrees[id].modified

(***************************************************************************)
(* Claim about the setup scripts (checked under SpecSetup).                *)
(***************************************************************************)
\* C31: runSetupScriptsSecure executes a command of the setup file only
\* after the confirmation step returned true, which without trust mode
\* takes the prompt; when the confirmation is declined no command is
\* executed and the function returns false.
C31_NoSetupWithoutConfirmation ==
    LET executed == {e \in issued : e[1] \in {"exec", "execFailed"}} IN
    /\ executed # {} =>
           /\ shouldRun = "yes"
           /\ ~fnCall.args[1].trust => <<"confirmCommands", 0>> \in issued
    /\ shouldRun = "no" =>
           /\ executed = {}
           /\ pc = "returned" /\ fnResult = <<FALSE>>

\* The user declined the commands of a setup file and nothing ran.
C31_Witness ==
    /\ shouldRun = "no" /\ ~fnCall.args[1].trust
    /\ Len(fnCall.env.commands) = MaxCommands
    /\ fnResult = <<FALSE>>
    /\ <<"confirmCommands", 0>> \in issued

\* Number of positions of s that hold x.
Occurrences(s, x) == Cardinality({i \in 1..Len(s) : s[i] = x})

\* C36 (as claimed, read in the code's favour: a handler registered several
\* times may be invoked once per registration): during handleShutdown no
\* cleanup handler registered when the signal arrived is invoked more often
\* than it was ever registered, and when the process ends with status 130
\* after one signal every such handler still registered has been invoked,
\* even when the main flow registers or unregisters handlers while an
\* earlier cleanup callback is awaited.
C36_EachHandlerOnceNoneSkipped ==
    \A h \in Range(shSnapshot) :
        /\ Occurrences(shInvoked, h)
             <= Cardinality({k \in 1..Len(held) : held[k].handler = h})
        /\ (signals = 1 /\ exitKind = "exit" /\ h \in Range(handlers))
             => h \in Range(shInvoked)

\* The handlers of the registrations whose closure was never called, in
\* registration order.
LiveRegistrations ==
    LET live == SelectSeq(held, LAMBDA c : ~c.called) IN
    [i \in 1..Len(live) |-> live[i].handler]

\* C37 (as claimed): the function register(handler) returns removes exactly
\* the registration it was returned for, so that the handler list is always
\* the registrations whose closure was never called, in their original
\* order (another registration of the same handler stays, a second call
\* changes nothing), and withCleanup leaves the handler list as it was
\* before the call, whether the operation succeeds or throws.
C37_UnregisterRemovesOwnRegistration ==
    [][/\ handlers = LiveRegistrations => handlers' = LiveRegistrations'
       /\ (ops' = ops + 1 /\ lastCall' \in {"withCleanup", "withCleanup:threw"})
            => handlers' = handlers]_vars

ThrewCalls == {"execute:threw", "createWorktree:threw", "createWorktreeFromRemote:threw"}

\* C38: a rollback action is registered only after its step has succeeded:
\* a call of execute, createWorktree or createWorktreeFromRemote whose step
\* fails throws to the caller and leaves the registered rollback actions
\* and the committed flag as they were, and the list of rollback actions
\* grows only in a call that returned normally.
C38_RollbackRegisteredAfterSuccess ==
    [][/\ (ops' = ops + 1 /\ lastCall' \in ThrewCalls)
            => /\ rollbackActions' = rollbackActions
               /\ committed' = committed
       /\ Len(rollbackActions') > Len(rollbackActions)
            => lastCall' \in {"execute:ok", "createWorktree:ok",
                              "createWorktreeFromRemote:ok"}]_vars

\* A step failed while earlier rollback actions were registered.
C38_Witness ==
    /\ lastCall \in ThrewCalls
    /\ rollbackActions # <<>>
    /\ ~committed

\* A mutating git subcommand issued by the main flow of the create command
\* has not returned yet: git worktree add, the rollback's git worktree
\* remove --force or git branch -D, or the finally block's git stash apply
\* or drop.
MainGitInFlight ==
    \/ pc = "create"
    \/ pc = "rollback" /\ rbPc \in {"remove", "branch"}
    \/ pc = "restore" /\ apPc["main"] \in {"apply", "drop"}

\* The cleanup callback's git stash apply or git stash drop has not returned.
HandlerGitInFlight == apPc["handler"] \in {"apply", "drop"}

\* C32 (as claimed): the cleanup callback never has a git command (stash
\* apply or drop) in flight while a mutating git subcommand issued by the
\* main flow is still in flight, so that no two mutating git operations of
\* one invocation run at the same time.
C32_NoConcurrentGitMutation ==
    Alive => ~(MainGitInFlight /\ HandlerGitInFlight)

\* C34: when create has finished normally after a stash was taken and no
\* signal arrived, the command's shutdown callback was unregistered before
\* the stash is restored (it is registered in no state in which
\* applyAndDropStash has been called), applyAndDropStash was called exactly
\* once (whether git stash apply itself succeeds is not the command's doing)
\* and dropped the stash at most once, and at the end the handler list holds
\* no callback of this command.
C34_UnregisteredBeforeRestore ==
    (signals = 0 /\ stashHash # "null" /\ ~stepFailed) =>
        /\ applyStarted >= 1 => "stash" \notin Range(handlers)
        /\ applyStarted <= 1 /\ applyDone <= applyStarted
        /\ pc \in {"restore", "end"} => applyStarted = 1
        /\ exitKind = "end" => /\ applyStarted = 1
                               /\ handlers = <<>>

\* The command ended normally with its stash applied and dropped.
C34_Witness ==
    /\ signals = 0 /\ stashHash # "null" /\ ~stepFailed
    /\ exitKind = "end" /\ exitCode = 0
    /\ applyStarted = 1 /\ applyDone = 1 /\ ~stashPresent /\ mainDirty
    /\ addedByCmd /\ committed

\* C35 (as claimed): once a termination signal has been handled by the
\* ShutdownManager, the process ends with status 130 after the cleanup, or
\* with the forced-exit status 1 on a second signal; the main flow never
\* ends it first with status 0 or 1 while cleanup callbacks are running.
C35_InterruptedExitStatus ==
    [][(Alive /\ isShuttingDown /\ ~Alive')
         => \/ exitCode' = ExitInterrupted /\ exitKind' = "exit"
            \/ exitCode' = ExitFailure /\ signals' = signals + 1]_vars

====
